---- MODULE Spec2Model ----
(***************************************************************************)
(* Model of JestEnvironment (src/src/utils/jestSimulator.ts): the suite    *)
(* registry (describe/test/hooks), the runner (run/runSuite/runTest/       *)
(* executeHook), the assertion counter of expect, mock functions created  *)
(* by jest.fn, and the fake timers.                                        *)
(***************************************************************************)
EXTENDS Integers, Sequences, FiniteSets, TLC

\* ---------------------------------------------------------------- bounds
MaxSuites == 3        \* describe blocks registered by a snippet (Spec)
MaxTests == 3         \* tests registered by a snippet (Spec)
MaxHooks == 1         \* lifecycle hooks registered by a snippet (Spec)
MaxCalls == 5         \* registration calls made by a snippet (Spec)
MaxThrows == 1        \* throws of user code (hooks, bodies) in one run
MaxMatcherCalls == 2  \* matcher calls issued by the user code of one run
MaxDeclared == 1      \* largest n passed to expect.assertions(n)

\* ---------------------------------------------------------------- values
None == 0                   \* null / no suite / no test
Undefined == "undefined"    \* the JavaScript value undefined

\* new Error(message)
NewError(message) == [type |-> "Error", message |-> message]

\* Values that user code throws or rejects with: an Error with message
\* "boom", a string (it has no message property), null and undefined.
Thrown ==
  {NewError("boom"),
   [type |-> "string", message |-> Undefined],
   [type |-> "null", message |-> Undefined],
   [type |-> "undefined", message |-> Undefined]}

\* Reading a property of null or undefined raises a TypeError.
HasProps(v) == v.type \notin {"null", "undefined"}

\* Variant: the message is prefixed with the name of the error.
MessageOfNamed(v) == "Error: " \o v.message

\* e.message for a value e that has properties.
MessageOf(v) == v.message

\* The TypeError raised by reading e.message of null or undefined.
TypeErrorOf(v) ==
  NewError("Cannot read properties of " \o v.type \o " (reading 'message')")

VARIABLES
  suites,          \* all SuiteResult objects, by creation order
  tests,           \* all TestResult objects, by creation order
  rootSuites,      \* env.rootSuites
  currentSuite,    \* env.currentSuite
  currentTest,     \* env.currentTest
  logs,            \* env.logs
  describeStack,   \* prevSuite of every describe call on the call stack
  nHooks,          \* number of hook functions registered so far
  phase,           \* position in runCode: register, run, done, aborted
  rootIdx,         \* run(): index of the next root suite
  frames,          \* runSuite activations: [suite, stage, idx]
  tpc,             \* position in runTest: none, beforeEach, body, afterEach
  beforeEachHooks, \* runTest local
  afterEachHooks,  \* runTest local
  hidx,            \* runTest: index of the each-hook being executed
  trace,           \* executions of user code (hooks and bodies), in order
  throws,          \* number of throws of user code so far
  matcherCalls,    \* per test: matcher calls issued while it was current
  mockFn,          \* a mock function made by jest.fn(impl)
  lastOutcome,     \* how the latest invocation of mockFn left the mock
  invoked,         \* argument tuples of the invocations since the last clear
  cleared,         \* the latest mockClear/mockReset: what the mock held before
                   \* it, and the invocations made since (age)
  useFakeTimersFlag, \* env.useFakeTimersFlag
  currentTime,     \* env.currentTime
  timers,          \* env.timers
  timerIdCounter,  \* env.timerIdCounter
  lastCall,        \* the latest call of a clock control: the clock before it,
                   \* the timers it fired and how it ended
  object,          \* an object of the snippet: its method, its field x, and
                   \* the function spyOn found in the method (original)
  lastMatch,       \* a matcher call of the snippet: the matcher, the received
                   \* value, the arguments, and how the call ended
  runs,            \* n: the calls of runCode so far; prior: the run before
                   \* this one left suites, logs, a called mock and a moved
                   \* clock behind
  spied,           \* a method that is spied on repeatedly: the function in
                   \* object[methodName] (0 the first one, k the mock of
                   \* the k-th spyOn), what each spyOn found there, the
                   \* calls of each mock, and the spies restored so far
  late,            \* the tests whose body left work behind that has not
                   \* run yet (a promise or real timer callback it did not
                   \* await)
  mockRegistry     \* env.mockRegistry[moduleName] of one module: what
                   \* jest.mock stored (kind), the target of the auto-mock
                   \* proxy, the functions this.fn() has made (their calls)
                   \* and the member reads of the snippet

vars == <<suites, tests, rootSuites, currentSuite, currentTest, logs,
          describeStack, nHooks, phase, rootIdx, frames, tpc,
          beforeEachHooks, afterEachHooks, hidx, trace, throws, matcherCalls,
          mockFn, lastOutcome, invoked, cleared,
          useFakeTimersFlag, currentTime, timers, timerIdCounter, lastCall,
          object, lastMatch, runs, spied, late, mockRegistry>>

regVars == <<suites, tests, rootSuites, currentSuite, describeStack, nHooks,
             matcherCalls>>
runVars == <<rootIdx, frames, tpc, beforeEachHooks, afterEachHooks, hidx>>
envVars == <<suites, tests, rootSuites, currentSuite, currentTest, logs,
             describeStack, nHooks, phase, rootIdx, frames, tpc,
             beforeEachHooks, afterEachHooks, hidx, trace, throws, matcherCalls>>
extVars == <<spied, late, mockRegistry>>
libVars == <<object, lastMatch, runs, extVars>>
mockVars == <<mockFn, lastOutcome, invoked, cleared, libVars>>
timerVars == <<useFakeTimersFlag, currentTime, timers, timerIdCounter, lastCall>>

Last(s) == s[Len(s)]
Front(s) == SubSeq(s, 1, Len(s) - 1)

\* ---------------------------------------------------------------- mock values
MaxInvocations == 3   \* invocations of the mock between two clears
MaxOnce == 2          \* queued one-shot implementations

\* Implementations: functions that return "a" or "b", or throw an Error; NoImpl
\* stands for undefined.
NoImpl == [kind |-> "none", value |-> Undefined]
Returning(v) == [kind |-> "return", value |-> v]
Throwing == [kind |-> "throw", value |-> "boom"]
Values == {"a", "b"}
Impls == {Returning(v) : v \in Values} \cup {Throwing}
ArgTuples == {<<"x">>, <<"y">>}

\* jest.fn(impl): empty logs, empty queue, no persistent implementation.
NewMock(impl) ==
  [calls |-> <<>>, results |-> <<>>, _onceImplementations |-> <<>>,
   _impl |-> NoImpl, impl |-> impl]

\* No mockClear or mockReset is being followed.
NotCleared ==
  [op |-> "none", _impl |-> NoImpl, queue |-> <<>>, calls |-> 0, age |-> 0]

\* No clock control has been called.
NoCall ==
  [op |-> "none", active |-> FALSE, start |-> 0, ms |-> 0, before |-> <<>>,
   fired |-> <<>>, outcome |-> [type |-> "return", message |-> Undefined]]

\* The member names a snippet reads of a mocked module.
Members == {"default", "get", "post"}

\* mockRegistry = {}: nothing registered for the module, no function made,
\* nothing read. A function made by this.fn() is known by its number; 0 is
\* undefined.
NoRegistry ==
  [kind |-> "none", target |-> [prop \in Members |-> 0], calls |-> <<>>,
   reads |-> <<>>]

\* ---------------------------------------------------------------- js values
\* The values a snippet hands to expect and to matchers. Every value is a
\* record of one shape: type, v (the primitive value as text, the behaviour
\* of a function, the constructor of any(), the message of an Error), ref
\* (the identity of an object; 0 for primitives), keys (Object.keys) and
\* items (the values under the keys; for a mock, its recorded calls).
Val(type, v, ref, keys, items) ==
  [type |-> type, v |-> v, ref |-> ref, keys |-> keys, items |-> items]

Num(n) == Val("number", n, 0, <<>>, <<>>)
NaN == Num("NaN")
Str(str) == Val("string", str, 0, <<>>, <<>>)
Bool(b) == Val("boolean", b, 0, <<>>, <<>>)
Null == Val("null", "null", 0, <<>>, <<>>)
Undef == Val("undefined", "undefined", 0, <<>>, <<>>)
Arr(ref, items) ==
  Val("array", "", ref, [i \in 1..Len(items) |-> ToString(i - 1)], items)
Obj(ref, keys, items) == Val("object", "", ref, keys, items)
Fn(ref, behaviour) == Val("function", behaviour, ref, <<>>, <<>>)
Err(ref, message) == Val("error", message, ref, <<>>, <<>>)
\* jest.fn() after the calls given, each call the array of its arguments.
Mock(ref, calls) == Val("mock", "", ref, <<>>, calls)
\* expect.any(constructor) and expect.anything(): objects with the two
\* properties _isAsymmetricMatcher and asymmetricMatch.
any(ref, constructor) ==
  Val("any", constructor, ref, <<"_isAsymmetricMatcher", "asymmetricMatch">>,
      <<Bool("true"), Fn(100 + ref, "return")>>)
anything(ref) ==
  Val("anything", "", ref, <<"_isAsymmetricMatcher", "asymmetricMatch">>,
      <<Bool("true"), Fn(100 + ref, "return")>>)

Has(seq, x) == \E i \in 1..Len(seq) : seq[i] = x
\* obj[key]
Get(obj, key) ==
  IF Has(obj.keys, key)
  THEN obj.items[CHOOSE i \in 1..Len(obj.keys) : obj.keys[i] = key]
  ELSE Undef

\* typeof a
TypeOf(a) ==
  IF a.type \in {"number", "string", "boolean", "undefined"} THEN a.type
  ELSE IF a.type \in {"function", "mock"} THEN "function"
  ELSE "object"

\* a === b: primitives by value, NaN equal to nothing, objects by identity.
StrictEquals(a, b) ==
  IF a.ref # 0 \/ b.ref # 0 THEN a.ref = b.ref
  ELSE a = b /\ a # NaN

\* !!a
Truthy(a) ==
  ~(a \in {Num("0"), NaN, Str(""), Null, Undef, Bool("false")})

\* message.includes(error)
Includes(message, error) ==
  \E i \in 1..(Len(message) - Len(error) + 1) :
    SubSeq(message, i, i + Len(error) - 1) = error

\* String(a), as in a template literal.
RECURSIVE Show(_)
RECURSIVE Join(_, _)
Join(items, i) ==
  IF i > Len(items) THEN ""
  ELSE (IF items[i] \in {Null, Undef} THEN "" ELSE Show(items[i]))
       \o (IF i < Len(items) THEN "," ELSE "") \o Join(items, i + 1)
Show(a) ==
  IF a.type = "array" THEN Join(a.items, 1)
  ELSE IF a.type = "error" THEN "Error: " \o a.v
  ELSE IF a.type \in {"function", "mock"} THEN "() => {}"
  ELSE IF a.type \in {"object", "any", "anything"} THEN "[object Object]"
  ELSE a.v

\* JSON.stringify(a).
RECURSIVE Json(_)
RECURSIVE JsonItems(_, _)
RECURSIVE JsonProps(_, _, _)
JsonItems(items, i) ==
  IF i > Len(items) THEN ""
  ELSE (IF TypeOf(items[i]) \in {"undefined", "function"} THEN "null"
        ELSE Json(items[i]))
       \o (IF i < Len(items) THEN "," ELSE "") \o JsonItems(items, i + 1)
JsonProps(a, i, sep) ==
  IF i > Len(a.keys) THEN ""
  ELSE IF TypeOf(a.items[i]) \in {"undefined", "function"}
       THEN JsonProps(a, i + 1, sep)
       ELSE sep \o "\"" \o a.keys[i] \o "\":" \o Json(a.items[i])
            \o JsonProps(a, i + 1, ",")
Json(a) ==
  IF a.type = "array" THEN "[" \o JsonItems(a.items, 1) \o "]"
  ELSE IF a.type = "string" THEN "\"" \o a.v \o "\""
  ELSE IF a = NaN THEN "null"
  ELSE IF a.type = "error" THEN "{}"
  ELSE IF a.type \in {"object", "any", "anything"}
       THEN "{" \o JsonProps(a, 1, "") \o "}"
  ELSE a.v


\* No matcher has been called.
NoMatch ==
  [kind |-> "none", isNot |-> FALSE, m |-> "none", received |-> Undef,
   args |-> <<>>, settle |-> "none",
   outcome |-> [type |-> "none", message |-> Undefined]]

\* ---------------------------------------------------------------- Init
InitEnv ==
  /\ suites = <<>>
  /\ tests = <<>>
  /\ rootSuites = <<>>
  /\ currentSuite = None
  /\ currentTest = None
  /\ logs = <<>>
  /\ describeStack = <<>>
  /\ nHooks = 0
  /\ phase = "register"
  /\ rootIdx = 1
  /\ frames = <<>>
  /\ tpc = "none"
  /\ beforeEachHooks = <<>>
  /\ afterEachHooks = <<>>
  /\ hidx = 1
  /\ trace = <<>>
  /\ throws = 0
  /\ matcherCalls = <<>>
  /\ useFakeTimersFlag = FALSE
  /\ currentTime = 0
  /\ timers = <<>>
  /\ timerIdCounter = 1
  /\ lastCall = NoCall

\* this.mockRegistry = {}, and a method no spyOn has been called for.
InitExt ==
  /\ mockRegistry = NoRegistry
  /\ spied = [method |-> 0, originals |-> <<>>, calls |-> <<>>,
              restored |-> {}]
  /\ late = {}

\* No object with a method yet, no matcher call.
InitLib ==
  /\ object = [method |-> NoImpl, x |-> "a", original |-> NoImpl]
  /\ lastMatch = NoMatch
  /\ runs = [n |-> 1, prior |-> FALSE]
  /\ InitExt

Init ==
  /\ InitEnv
  /\ InitLib
  /\ mockFn = NewMock(NoImpl)
  /\ lastOutcome = [type |-> "none", value |-> Undefined]
  /\ invoked = <<>>
  /\ cleared = NotCleared

\* ---------------------------------------------------------------- log
\* env.log(message): to the current test's logs, else to env.logs.
\* LogTests/LogLogs give the new values of tests and logs.
LogTests(ts, cur, message) ==
  IF cur # None THEN [ts EXCEPT ![cur].logs = Append(@, message)] ELSE ts
LogLogs(cur, message) ==
  IF cur # None THEN logs ELSE Append(logs, message)

\* ---------------------------------------------------------------- registry
\* Variant: the parent back-reference is never set.
NewSuiteOrphan(parent) ==
  [description |-> "suite", parent |-> None, tests |-> <<>>, suites |-> <<>>,
   _beforeEach |-> <<>>, _afterEach |-> <<>>,
   _beforeAll |-> <<>>, _afterAll |-> <<>>]

\* The suite object made by describe(description, callback); snippets call
\* describe with the description "suite".
NewSuite(parent) ==
  [description |-> "suite", parent |-> parent, tests |-> <<>>, suites |-> <<>>,
   _beforeEach |-> <<>>, _afterEach |-> <<>>,
   _beforeAll |-> <<>>, _afterAll |-> <<>>]

\* Variant: the new test has already counted an assertion.
NewTestCounted ==
  [status |-> "pending", error |-> Undefined, logs |-> <<>>,
   assertionsCount |-> 1, assertionsExpected |-> <<>>, fnLength |-> 0]

\* assertionsExpected is <<>> while undefined and <<n>> once declared.
NewTest ==
  [status |-> "pending", error |-> Undefined, logs |-> <<>>,
   assertionsCount |-> 0, assertionsExpected |-> <<>>, fnLength |-> 0]

\* The registration calls a snippet may still make: b bounds the number of
\* suites, tests and hooks and their total.
SpecBounds ==
  [suites |-> MaxSuites, tests |-> MaxTests, hooks |-> MaxHooks,
   calls |-> MaxCalls]
Registered == Len(suites) + Len(tests) + nHooks

\* describe(description, callback) up to the call of the builder.
Describe(b) ==
  /\ phase = "register"
  /\ Len(suites) < b.suites /\ Registered < b.calls
  /\ LET id == Len(suites) + 1
         added == Append(suites, NewSuite(currentSuite))
     IN /\ suites' = IF currentSuite # None
                     THEN [added EXCEPT ![currentSuite].suites = Append(@, id)]
                     ELSE added
        /\ rootSuites' = IF currentSuite # None THEN rootSuites
                         ELSE Append(rootSuites, id)
        /\ describeStack' = Append(describeStack, currentSuite)
        /\ currentSuite' = id
  /\ UNCHANGED <<tests, currentTest, logs, nHooks, phase, runVars, trace,
                 throws, matcherCalls>>
  /\ UNCHANGED <<mockVars, timerVars>>

\* describe: the builder returns, the previous container is restored.
DescribeReturn ==
  /\ phase = "register"
  /\ describeStack # <<>>
  /\ currentSuite' = Last(describeStack)
  /\ describeStack' = Front(describeStack)
  /\ UNCHANGED <<suites, tests, rootSuites, currentTest, logs, nHooks, phase,
                 runVars, trace, throws, matcherCalls>>
  /\ UNCHANGED <<mockVars, timerVars>>

\* test(description, callback); with no active container the test is
\* registered inside describe('Root', ...). fnLength is callback.length, the
\* number of parameters the body declares.
TestFn(b, fnLength) ==
  /\ phase = "register"
  /\ Len(tests) < b.tests /\ Registered < b.calls
  /\ LET tid == Len(tests) + 1
         sid == Len(suites) + 1
     IN /\ tests' = Append(tests, [NewTest EXCEPT !.fnLength = fnLength])
        /\ matcherCalls' = Append(matcherCalls, 0)
        /\ IF currentSuite = None
           THEN /\ Len(suites) < b.suites /\ Registered + 1 < b.calls
                /\ suites' = Append(suites,
                                    [NewSuite(None) EXCEPT
                                       !.description = "Root",
                                       !.tests = <<tid>>])
                /\ rootSuites' = Append(rootSuites, sid)
           ELSE /\ suites' = [suites EXCEPT ![currentSuite].tests =
                                                          Append(@, tid)]
                /\ UNCHANGED rootSuites
  /\ UNCHANGED <<currentSuite, currentTest, logs, describeStack, nHooks, phase,
                 runVars, trace, throws>>
  /\ UNCHANGED <<mockVars, timerVars>>

\* test(description, () => ...): a body that declares no parameter.
Test(b) == TestFn(b, 0)

\* test(description, (done) => ...): a body that declares one parameter.
TestCallback(b) == TestFn(b, 1)

\* beforeEach / afterEach / beforeAll / afterAll (fn): appended to the list
\* of the active suite; ignored when no suite is active.
AddHook(list, b) ==
  /\ phase = "register"
  /\ nHooks < b.hooks /\ Registered < b.calls
  /\ IF currentSuite = None
     THEN UNCHANGED <<suites, nHooks>>
     ELSE /\ nHooks' = nHooks + 1
          /\ suites' = [suites EXCEPT ![currentSuite][list] =
                                                     Append(@, nHooks + 1)]
  /\ UNCHANGED <<tests, rootSuites, currentSuite, currentTest, logs,
                 describeStack, phase, runVars, trace, throws, matcherCalls>>
  /\ UNCHANGED <<mockVars, timerVars>>

BeforeEach(b) == AddHook("_beforeEach", b)
AfterEach(b) == AddHook("_afterEach", b)
BeforeAll(b) == AddHook("_beforeAll", b)
AfterAll(b) == AddHook("_afterAll", b)

\* ---------------------------------------------------------------- runner
Top == frames[Len(frames)]
SetTop(f) == [frames EXCEPT ![Len(frames)] = f]
NextIdx == SetTop([Top EXCEPT !.idx = @ + 1])

\* The list a runSuite activation iterates over in its current loop.
StageList(f) ==
  CASE f.stage = "beforeAll" -> suites[f.suite]._beforeAll
    [] f.stage = "tests" -> suites[f.suite].tests
    [] f.stage = "suites" -> suites[f.suite].suites
    [] f.stage = "afterAll" -> suites[f.suite]._afterAll

\* runTest: the while loop that collects the hooks from the owning suite up
\* to the root; unshift(...xs) puts xs in front, push(...xs) at the end.
\* Variant: the before-each hooks are pushed at the end, as the after-each
\* hooks are.
RECURSIVE CollectBeforeEachPush(_, _)
CollectBeforeEachPush(s, acc) ==
  IF s = None THEN acc
  ELSE CollectBeforeEachPush(suites[s].parent, acc \o suites[s]._beforeEach)

RECURSIVE CollectBeforeEach(_, _)
CollectBeforeEach(s, acc) ==
  IF s = None THEN acc
  ELSE CollectBeforeEach(suites[s].parent, suites[s]._beforeEach \o acc)

RECURSIVE CollectAfterEach(_, _)
CollectAfterEach(s, acc) ==
  IF s = None THEN acc
  ELSE CollectAfterEach(suites[s].parent, acc \o suites[s]._afterEach)

\* A hook of runSuite (before-all / after-all) is executing.
InSuiteHook ==
  /\ phase = "run" /\ tpc = "none" /\ frames # <<>>
  /\ Top.stage \in {"beforeAll", "afterAll"}
  /\ Top.idx <= Len(StageList(Top))

\* A hook of runTest (before-each / after-each) is executing.
EachList == IF tpc = "beforeEach" THEN beforeEachHooks ELSE afterEachHooks
InTestHook ==
  /\ phase = "run" /\ tpc \in {"beforeEach", "afterEach"}
  /\ hidx <= Len(EachList)

CurHook == IF InTestHook THEN EachList[hidx] ELSE StageList(Top)[Top.idx]
CurHookKind == IF InTestHook THEN tpc ELSE Top.stage

\* An entry of trace: user code id of kind k ran while test t was current and
\* returned, threw or rejected (mode) with value; kind test marks the start of
\* runTest for test id.
Event(k, id, mode, value) ==
  [k |-> k, id |-> id, t |-> currentTest, mode |-> mode, value |-> value]
\* The value of user code that returns nothing.
Returned == [type |-> "undefined", message |-> Undefined]

\* run() is entered once the snippet has built the tree.
Run ==
  /\ phase = "register"
  /\ describeStack = <<>>
  /\ phase' = "run"
  /\ rootIdx' = 1
  /\ UNCHANGED <<regVars, currentTest, logs, frames, tpc, beforeEachHooks,
                 afterEachHooks, hidx, trace, throws>>
  /\ UNCHANGED <<mockVars, timerVars>>

\* run(): for (const suite of this.rootSuites) await this.runSuite(suite)
RunLoop ==
  /\ phase = "run"
  /\ frames = <<>>
  /\ IF rootIdx <= Len(rootSuites)
     THEN /\ frames' = <<[suite |-> rootSuites[rootIdx],
                          stage |-> "beforeAll", idx |-> 1]>>
          /\ rootIdx' = rootIdx + 1
          /\ UNCHANGED phase
     ELSE /\ phase' = "done"
          /\ UNCHANGED <<frames, rootIdx>>
  /\ UNCHANGED <<regVars, currentTest, logs, tpc, beforeEachHooks,
                 afterEachHooks, hidx, trace, throws>>
  /\ UNCHANGED <<mockVars, timerVars>>

\* Variant: the loop over the child suites comes before the loop over the
\* suite's own tests.
RunSuiteStageChildrenFirst ==
  /\ phase = "run" /\ tpc = "none" /\ frames # <<>>
  /\ Top.idx > Len(StageList(Top))
  /\ frames' =
       CASE Top.stage = "beforeAll" -> SetTop([Top EXCEPT !.stage = "suites", !.idx = 1])
         [] Top.stage = "suites" -> SetTop([Top EXCEPT !.stage = "tests", !.idx = 1])
         [] Top.stage = "tests" -> SetTop([Top EXCEPT !.stage = "afterAll", !.idx = 1])
         [] Top.stage = "afterAll" -> Front(frames)
  /\ UNCHANGED <<regVars, currentTest, logs, phase, rootIdx, tpc,
                 beforeEachHooks, afterEachHooks, hidx, trace, throws>>
  /\ UNCHANGED <<mockVars, timerVars>>

\* runSuite: a loop is exhausted; the next loop starts, or runSuite returns.
RunSuiteStage ==
  /\ phase = "run" /\ tpc = "none" /\ frames # <<>>
  /\ Top.idx > Len(StageList(Top))
  /\ frames' =
       CASE Top.stage = "beforeAll" -> SetTop([Top EXCEPT !.stage = "tests", !.idx = 1])
         [] Top.stage = "tests" -> SetTop([Top EXCEPT !.stage = "suites", !.idx = 1])
         [] Top.stage = "suites" -> SetTop([Top EXCEPT !.stage = "afterAll", !.idx = 1])
         [] Top.stage = "afterAll" -> Front(frames)
  /\ UNCHANGED <<regVars, currentTest, logs, phase, rootIdx, tpc,
                 beforeEachHooks, afterEachHooks, hidx, trace, throws>>
  /\ UNCHANGED <<mockVars, timerVars>>

\* runSuite: await this.runSuite(childSuite)
RunSuiteChild ==
  /\ phase = "run" /\ tpc = "none" /\ frames # <<>>
  /\ Top.stage = "suites"
  /\ Top.idx <= Len(StageList(Top))
  /\ frames' = Append(NextIdx, [suite |-> StageList(Top)[Top.idx],
                                stage |-> "beforeAll", idx |-> 1])
  /\ UNCHANGED <<regVars, currentTest, logs, phase, rootIdx, tpc,
                 beforeEachHooks, afterEachHooks, hidx, trace, throws>>
  /\ UNCHANGED <<mockVars, timerVars>>

\* runTest up to the first hook: the test becomes current and running, the
\* effective hooks are collected.
RunTest ==
  /\ phase = "run" /\ tpc = "none" /\ frames # <<>>
  /\ Top.stage = "tests"
  /\ Top.idx <= Len(StageList(Top))
  /\ LET t == StageList(Top)[Top.idx]
     IN /\ currentTest' = t
        /\ tests' = [tests EXCEPT ![t].status = "running", ![t].logs = <<>>]
  /\ beforeEachHooks' = CollectBeforeEach(Top.suite, <<>>)
  /\ afterEachHooks' = CollectAfterEach(Top.suite, <<>>)
  /\ tpc' = "beforeEach"
  /\ hidx' = 1
  /\ trace' = Append(trace, [Event("test", StageList(Top)[Top.idx], "start",
                                  Returned) EXCEPT !.t = StageList(Top)[Top.idx]])
  /\ UNCHANGED <<suites, rootSuites, currentSuite, describeStack, nHooks,
                 matcherCalls, logs, phase, rootIdx, frames, throws>>
  /\ UNCHANGED <<mockVars, timerVars>>

\* runTest returns to the loop over the suite's tests.
\* Variant: the test stays current after runTest has returned.
EndTestStillCurrent(ts) ==
  /\ tests' = ts
  /\ currentTest' = currentTest
  /\ tpc' = "none"
  /\ hidx' = 1
  /\ beforeEachHooks' = <<>>
  /\ afterEachHooks' = <<>>
  /\ frames' = NextIdx
  /\ UNCHANGED <<logs, phase>>

EndTest(ts) ==
  /\ tests' = ts
  /\ currentTest' = None
  /\ tpc' = "none"
  /\ hidx' = 1
  /\ beforeEachHooks' = <<>>
  /\ afterEachHooks' = <<>>
  /\ frames' = NextIdx
  /\ UNCHANGED <<logs, phase>>

\* runCode's catch: the run is abandoned, the error is logged (to the logs of
\* env.currentTest when one is still set) and the result is returned.
Abort(ts, e) ==
  /\ tests' = LogTests(ts, currentTest, "Execution Error: " \o MessageOf(e))
  /\ logs' = LogLogs(currentTest, "Execution Error: " \o MessageOf(e))
  /\ phase' = "aborted"
  /\ frames' = <<>>
  /\ tpc' = "none"
  /\ hidx' = 1
  /\ beforeEachHooks' = <<>>
  /\ afterEachHooks' = <<>>
  /\ UNCHANGED currentTest

\* Variant: the catch records the message and leaves the status.
CatchInTestErrorOnly(ts, e) ==
  IF HasProps(e)
  THEN EndTest([ts EXCEPT ![currentTest].error = MessageOf(e)])
  ELSE Abort(ts, TypeErrorOf(e))

\* runTest's catch for a thrown value e: status fail, error = e.message.
\* When e is null or undefined, reading e.message raises a TypeError after
\* the status was set; nothing between runTest and runCode catches it.
CatchInTest(ts, e) ==
  LET failed == [ts EXCEPT ![currentTest].status = "fail"]
  IN IF HasProps(e)
     THEN EndTest([failed EXCEPT ![currentTest].error = MessageOf(e)])
     ELSE Abort(failed, TypeErrorOf(e))

\* executeHook: the hook returns (or its promise resolves).
ExecuteHookReturn ==
  /\ InSuiteHook \/ InTestHook
  /\ trace' = Append(trace, Event(CurHookKind, CurHook, "return", Returned))
  /\ IF InTestHook
     THEN hidx' = hidx + 1 /\ UNCHANGED frames
     ELSE frames' = NextIdx /\ UNCHANGED hidx
  /\ UNCHANGED <<regVars, currentTest, logs, phase, rootIdx, tpc,
                 beforeEachHooks, afterEachHooks, throws>>
  /\ UNCHANGED <<mockVars, timerVars>>

\* executeHook's catch for a thrown value e: e.message is logged and the
\* caller goes on with the next hook.  For e null or undefined that read
\* raises a TypeError, which leaves executeHook: inside runTest it reaches
\* runTest's catch, inside runSuite it reaches runCode's catch.
HookCatch(ts, e) ==
  IF HasProps(e)
  THEN /\ tests' = LogTests(ts, currentTest, "Error in hook: " \o MessageOf(e))
       /\ logs' = LogLogs(currentTest, "Error in hook: " \o MessageOf(e))
       /\ IF InTestHook
          THEN hidx' = hidx + 1 /\ UNCHANGED frames
          ELSE frames' = NextIdx /\ UNCHANGED hidx
       /\ UNCHANGED <<currentTest, phase, tpc, beforeEachHooks, afterEachHooks>>
  ELSE IF InTestHook
       THEN CatchInTest(ts, TypeErrorOf(e))
       ELSE Abort(ts, TypeErrorOf(e))

\* executeHook: the hook throws e (or its promise rejects with e).
ExecuteHookThrow(e) ==
  /\ InSuiteHook \/ InTestHook
  /\ throws < MaxThrows
  /\ throws' = throws + 1
  /\ trace' = Append(trace, Event(CurHookKind, CurHook, "throw", e))
  /\ HookCatch(tests, e)
  /\ UNCHANGED <<suites, rootSuites, currentSuite, describeStack, nHooks,
                 matcherCalls, rootIdx>>
  /\ UNCHANGED <<mockVars, timerVars>>

\* runTest: the before-each hooks are done, the body is called.
RunTestBody ==
  /\ phase = "run" /\ tpc = "beforeEach"
  /\ hidx > Len(beforeEachHooks)
  /\ tests[currentTest].fnLength = 0
  /\ tpc' = "body"
  /\ UNCHANGED <<regVars, currentTest, logs, phase, rootIdx, frames,
                 beforeEachHooks, afterEachHooks, hidx, trace, throws>>
  /\ UNCHANGED <<mockVars, timerVars>>

\* The body returns (its awaited value resolves): status pass, then the
\* after-each hooks.
BodyReturn ==
  /\ phase = "run" /\ tpc = "body"
  /\ trace' = Append(trace, Event("body", currentTest, "return", Returned))
  /\ tests' = [tests EXCEPT ![currentTest].status = "pass"]
  /\ tpc' = "afterEach"
  /\ hidx' = 1
  /\ UNCHANGED <<suites, rootSuites, currentSuite, describeStack, nHooks,
                 matcherCalls, currentTest, logs, phase, rootIdx, frames,
                 beforeEachHooks, afterEachHooks, throws>>
  /\ UNCHANGED <<mockVars, timerVars>>

\* The body throws e synchronously (mode throw) or its awaited value rejects
\* with e (mode reject): both reach runTest's catch.
BodyThrow(mode, e) ==
  /\ phase = "run" /\ tpc = "body"
  /\ throws < MaxThrows
  /\ throws' = throws + 1
  /\ trace' = Append(trace, Event("body", currentTest, mode, e))
  /\ CatchInTest(tests, e)
  /\ UNCHANGED <<suites, rootSuites, currentSuite, describeStack, nHooks,
                 matcherCalls, rootIdx>>
  /\ UNCHANGED <<mockVars, timerVars>>

\* runTest: the after-each hooks are done; the assertion count is compared
\* with the declared one, a mismatch throws into runTest's catch.
RunTestCheck ==
  /\ phase = "run" /\ tpc = "afterEach"
  /\ hidx > Len(afterEachHooks)
  /\ LET t == tests[currentTest]
     IN IF /\ t.assertionsExpected # <<>>
           /\ t.assertionsCount # t.assertionsExpected[1]
        THEN CatchInTest(tests,
               NewError("Expected " \o ToString(t.assertionsExpected[1])
                        \o " assertions to be called but received "
                        \o ToString(t.assertionsCount)))
        ELSE EndTest(tests)
  /\ UNCHANGED <<suites, rootSuites, currentSuite, describeStack, nHooks,
                 matcherCalls, rootIdx, trace, throws>>
  /\ UNCHANGED <<mockVars, timerVars>>

\* ---------------------------------------------------------------- done
\* runTest, test.fn.length > 0: the body is called inside the executor of
\* new Promise((resolve, reject) => { const done = () => resolve();
\* test.fn(done); }) and runTest awaits that promise. Whatever the body
\* returns is dropped. tpc = "callback" while the body is running,
\* "awaitDone" once it has returned without done having been called, and
\* "stalled" when nothing will ever settle what runTest awaits.

\* done has been called for test t.
DoneCalled(t) == \E i \in 1..Len(trace) : trace[i].k = "done" /\ trace[i].id = t

\* The promise of test t resolved: status pass, then the after-each hooks.
Resolved ==
  /\ tests' = [tests EXCEPT ![currentTest].status = "pass"]
  /\ tpc' = "afterEach"
  /\ hidx' = 1
  /\ UNCHANGED <<currentTest, logs, phase, frames, beforeEachHooks,
                 afterEachHooks>>

\* The arity of the body is ignored and the body is awaited as a plain one.
RunTestBodyAwaited ==
  /\ phase = "run" /\ tpc = "beforeEach"
  /\ hidx > Len(beforeEachHooks)
  /\ tests[currentTest].fnLength > 0
  /\ tpc' = "body"
  /\ UNCHANGED <<regVars, currentTest, logs, phase, rootIdx, frames,
                 beforeEachHooks, afterEachHooks, hidx, trace, throws>>
  /\ UNCHANGED <<mockVars, timerVars>>

\* The before-each hooks are through and the body declares a parameter: the
\* body is called with done.
RunTestBodyCallback ==
  /\ phase = "run" /\ tpc = "beforeEach"
  /\ hidx > Len(beforeEachHooks)
  /\ tests[currentTest].fnLength > 0
  /\ tpc' = "callback"
  /\ UNCHANGED <<regVars, currentTest, logs, phase, rootIdx, frames,
                 beforeEachHooks, afterEachHooks, hidx, trace, throws>>
  /\ UNCHANGED <<mockVars, timerVars>>

\* The body calls done() while it is running: resolve() settles the promise,
\* runTest resumes only after the body has returned to the executor.
Done ==
  /\ phase = "run" /\ tpc = "callback"
  /\ ~DoneCalled(currentTest)
  /\ trace' = Append(trace, Event("done", currentTest, "sync", Returned))
  /\ UNCHANGED <<regVars, runVars, currentTest, logs, phase, throws>>
  /\ UNCHANGED <<mockVars, timerVars>>

\* The body returns. With done already called the awaited promise is
\* resolved; otherwise runTest keeps waiting for done.
CallbackReturn ==
  /\ phase = "run" /\ tpc = "callback"
  /\ trace' = Append(trace, Event("body", currentTest, "return", Returned))
  /\ IF DoneCalled(currentTest)
     THEN Resolved
     ELSE /\ tpc' = "awaitDone"
          /\ UNCHANGED <<tests, currentTest, logs, phase, frames, hidx,
                         beforeEachHooks, afterEachHooks>>
  /\ UNCHANGED <<suites, rootSuites, currentSuite, describeStack, nHooks,
                 matcherCalls, rootIdx, throws>>
  /\ UNCHANGED <<mockVars, timerVars>>

\* The body throws e. The executor turns the exception into a rejection of
\* the promise, which has no effect on a promise done() already resolved.
CallbackThrow(e) ==
  /\ phase = "run" /\ tpc = "callback"
  /\ throws < MaxThrows
  /\ throws' = throws + 1
  /\ trace' = Append(trace, Event("body", currentTest, "throw", e))
  /\ IF DoneCalled(currentTest)
     THEN Resolved
     ELSE CatchInTest(tests, e)
  /\ UNCHANGED <<suites, rootSuites, currentSuite, describeStack, nHooks,
                 matcherCalls, rootIdx>>
  /\ UNCHANGED <<mockVars, timerVars>>

\* done() is called after the body returned (from a callback the body left
\* behind): the promise resolves and runTest resumes.
DoneLater ==
  /\ phase = "run" /\ tpc = "awaitDone"
  /\ trace' = Append(trace, Event("done", currentTest, "later", Returned))
  /\ Resolved
  /\ UNCHANGED <<suites, rootSuites, currentSuite, describeStack, nHooks,
                 matcherCalls, rootIdx, throws>>
  /\ UNCHANGED <<mockVars, timerVars>>

\* Nothing is left that would call done, or the promise a plain body
\* returned never settles: runTest has no timer of its own, its await never
\* resumes.
NeverSettles ==
  /\ phase = "run" /\ tpc \in {"awaitDone", "body"}
  /\ tpc' = "stalled"
  /\ UNCHANGED <<regVars, currentTest, logs, phase, rootIdx, frames,
                 beforeEachHooks, afterEachHooks, hidx, trace, throws>>
  /\ UNCHANGED <<mockVars, timerVars>>

CallbackBounds == [suites |-> 2, tests |-> 2, hooks |-> 1, calls |-> 4]

NextCallback ==
  \/ Describe(CallbackBounds)
  \/ DescribeReturn
  \/ Test(CallbackBounds)
  \/ TestCallback(CallbackBounds)
  \/ AfterEach(CallbackBounds)
  \/ Run
  \/ RunLoop
  \/ RunSuiteStage
  \/ RunSuiteChild
  \/ RunTest
  \/ ExecuteHookReturn
  \/ RunTestBody
  \/ BodyReturn
  \/ \E e \in Thrown : BodyThrow("throw", e)
  \/ RunTestBodyCallback
  \/ Done
  \/ CallbackReturn
  \/ \E e \in Thrown : CallbackThrow(e)
  \/ DoneLater
  \/ NeverSettles
  \/ RunTestCheck

SpecCallback == Init /\ [][NextCallback]_vars

\* ---------------------------------------------------------------- expect
InBody == phase = "run" /\ tpc = "body"
UserCode == InSuiteHook \/ InTestHook \/ InBody

\* User code ends by throwing e: a body into runTest's catch, a hook into
\* executeHook's catch.
UserThrow(ts, mode, e) ==
  /\ trace' = Append(trace,
                     IF InBody THEN Event("body", currentTest, mode, e)
                     ELSE Event(CurHookKind, CurHook, mode, e))
  /\ IF InBody THEN CatchInTest(ts, e) ELSE HookCatch(ts, e)

\* expect.assertions(n)
ExpectAssertions(n) ==
  /\ UserCode
  /\ tests' = IF currentTest # None
              THEN [tests EXCEPT ![currentTest].assertionsExpected = <<n>>]
              ELSE tests
  /\ UNCHANGED <<suites, rootSuites, currentSuite, describeStack, nHooks,
                 matcherCalls, currentTest, logs, phase, runVars, trace, throws>>
  /\ UNCHANGED <<mockVars, timerVars>>

\* expect(received): the counter of the current test, if any, goes up by one.
Counted(ts) ==
  IF currentTest # None
  THEN [ts EXCEPT ![currentTest].assertionsCount = (@) + 1]
  ELSE ts

\* One more matcher call was issued while the current test, if any, was current.
Issued ==
  IF currentTest # None
  THEN [matcherCalls EXCEPT ![currentTest] = @ + 1]
  ELSE matcherCalls
MayIssue ==
  /\ UserCode
  /\ currentTest # None => matcherCalls[currentTest] < MaxMatcherCalls

\* pass(condition, message) of matchers(isNot): it throws unless the
\* condition, inverted under .not, holds.
PassThrows(isNot, condition) ==
  LET result == IF isNot THEN ~condition ELSE condition
  IN ~result

AssertionError == NewError("Expected deep equality failure")
ResolvedError == NewError("Promise resolved but expected rejection")
CheckErrorFailure == NewError("Expected error to include")

\* expect(received).m(args) and expect(received).not.m(args), m a matcher
\* built on pass(): one expect call, then the matcher.
ExpectMatcher(isNot, condition) ==
  /\ MayIssue
  /\ matcherCalls' = Issued
  /\ IF PassThrows(isNot, condition)
     THEN UserThrow(Counted(tests), "throw", AssertionError)
     ELSE /\ tests' = Counted(tests)
          /\ UNCHANGED <<currentTest, logs, phase, frames, tpc,
                         beforeEachHooks, afterEachHooks, hidx, trace>>
  /\ UNCHANGED <<suites, rootSuites, currentSuite, describeStack, nHooks,
                 rootIdx, throws>>
  /\ UNCHANGED <<mockVars, timerVars>>

\* What the async function returned by createAsyncMatcher(type)[matcher]
\* does once received has settled (settle is resolve or reject, e the
\* rejection value): "throw" with the value thrown; "return" when no matcher
\* of that name exists; "checkError" for toThrow, which checks the settled
\* value itself; "matcher" when the synchronous matcher is reached through a
\* second expect call.
AsyncStep(type, settle, e, matcher) ==
  IF type = "resolves" /\ settle = "reject"
    THEN [do |-> "throw", e |-> e]
  ELSE IF type = "rejects" /\ settle = "resolve"
    THEN [do |-> "throw", e |-> ResolvedError]
  ELSE IF type = "rejects" /\ ~HasProps(e)
    THEN [do |-> "throw", e |-> TypeErrorOf(e)]
  ELSE IF type = "rejects" /\ MessageOf(e) = MessageOf(ResolvedError)
    THEN [do |-> "throw", e |-> e]
  ELSE IF matcher = "unknown"
    THEN [do |-> "return", e |-> Returned]
  ELSE IF matcher = "toThrow"
    THEN [do |-> "checkError", e |-> Returned]
  ELSE [do |-> "matcher", e |-> Returned]

\* await expect(received).resolves.m(args) / .rejects.m(args)
ExpectAsync(type, settle, e, matcher, condition) ==
  /\ MayIssue
  /\ matcherCalls' = Issued
  /\ LET step == AsyncStep(type, settle, e, matcher)
         first == Counted(tests)
     IN CASE step.do = "throw" -> UserThrow(first, "reject", step.e)
          [] step.do = "return" ->
               /\ tests' = first
               /\ UNCHANGED <<currentTest, logs, phase, frames, tpc,
                              beforeEachHooks, afterEachHooks, hidx, trace>>
          [] step.do = "checkError" ->
               IF ~condition
               THEN UserThrow(first, "reject", CheckErrorFailure)
               ELSE /\ tests' = first
                    /\ UNCHANGED <<currentTest, logs, phase, frames, tpc,
                                   beforeEachHooks, afterEachHooks, hidx, trace>>
          [] step.do = "matcher" ->
               IF PassThrows(FALSE, condition)
               THEN UserThrow(Counted(first), "reject", AssertionError)
               ELSE /\ tests' = Counted(first)
                    /\ UNCHANGED <<currentTest, logs, phase, frames, tpc,
                                   beforeEachHooks, afterEachHooks, hidx, trace>>
  /\ UNCHANGED <<suites, rootSuites, currentSuite, describeStack, nHooks,
                 rootIdx, throws>>
  /\ UNCHANGED <<mockVars, timerVars>>

\* ---------------------------------------------------------------- matchers
\* How a matcher call ends: it returns, or it throws a value with this
\* message.
Passed == [type |-> "return", message |-> Undefined]
Failed(message) == [type |-> "throw", message |-> message]

\* b._isAsymmetricMatcher
IsAsymmetricMatcher(b) == b.type \in {"any", "anything"}

\* any(constructor).asymmetricMatch(actual), anything().asymmetricMatch(actual)
AsymmetricMatch(b, actual) ==
  IF b.type = "anything" THEN actual # Null /\ actual # Undef
  ELSE IF b.v = "String" THEN TypeOf(actual) = "string"
  ELSE IF b.v = "Number" THEN TypeOf(actual) = "number"
  ELSE IF b.v = "Boolean" THEN TypeOf(actual) = "boolean"
  ELSE IF b.v = "Function" THEN TypeOf(actual) = "function"
  ELSE IF b.v = "Object" THEN TypeOf(actual) = "object" /\ actual # Null
  ELSE actual.type = "array"

\* deepEqual(a, b) of matchers.
RECURSIVE deepEqual(_, _)
deepEqual(a, b) ==
  IF Truthy(b) /\ TypeOf(b) = "object" /\ IsAsymmetricMatcher(b)
  THEN AsymmetricMatch(b, a)
  ELSE IF StrictEquals(a, b) THEN TRUE
  ELSE IF TypeOf(a) # "object" \/ a = Null \/ TypeOf(b) # "object" \/ b = Null
       THEN FALSE
  ELSE IF Len(a.keys) # Len(b.keys) THEN FALSE
  ELSE \A i \in 1..Len(a.keys) :
         /\ Has(b.keys, a.keys[i])
         /\ deepEqual(a.items[i], Get(b, a.keys[i]))

\* pass(condition, message) of matchers(isNot).
Pass(isNot, condition, message) ==
  IF PassThrows(isNot, condition) THEN Failed(message) ELSE Passed

\* received(): what calling the received value gives; a value that is not a
\* function cannot be called (TypeError).
CallReceived(received) ==
  IF TypeOf(received) # "function"
    THEN [threw |-> TRUE, e |-> Err(90, "received is not a function")]
  ELSE IF received.v = "throwError"
    THEN [threw |-> TRUE, e |-> Err(91, "boom")]
  ELSE IF received.v = "throwString"
    THEN [threw |-> TRUE, e |-> Str("boom")]
  ELSE [threw |-> FALSE, e |-> Undef]

\* checkError(thrown, error)
CheckError(thrown, error) ==
  IF ~Truthy(error) THEN Passed
  ELSE LET message == IF thrown.type = "error" THEN thrown.v ELSE Show(thrown)
       IN IF TypeOf(error) = "string" /\ ~Includes(message, error.v)
          THEN Failed("Expected error to include \"" \o error.v
                        \o "\", but got \"" \o message \o "\"")
          ELSE Passed

\* The first argument, undefined when there is none.
Arg(args) == IF Len(args) > 0 THEN args[1] ELSE Undef

\* received.mock is missing: reading it off null or undefined is a TypeError,
\* otherwise the matcher throws its own error.
NotAMock(received) ==
  IF received \in {Null, Undef}
  THEN Failed("Cannot read properties of " \o received.v
                \o " (reading 'mock')")
  ELSE Failed("Received value must be a mock function")

\* The matchers registered with expect.extend: toBeOne(received) gives
\* { pass: received === 1, message: () => 'not one' }.
CustomMatchers == {"toBeOne"}

\* The members of the object matchers(isNot) returns.
MatcherNames ==
  {"toBe", "toEqual", "toBeTruthy", "toBeNull", "toBeDefined", "toThrow",
   "toHaveBeenCalled", "toHaveBeenCalledWith", "toMatchSnapshot"}
    \cup CustomMatchers

\* matchers(isNot)[m](...args) for expect(received).
Matchers(isNot, m, received, args) ==
  CASE m = "toBe" ->
         Pass(isNot, StrictEquals(received, Arg(args)),
              "Expected " \o Show(Arg(args)) \o " but received "
                \o Show(received))
    [] m = "toEqual" ->
         Pass(isNot, deepEqual(received, Arg(args)),
              "Expected deep equality failure")
    [] m = "toBeTruthy" ->
         Pass(isNot, Truthy(received),
              "Expected truthy but received " \o Show(received))
    [] m = "toBeNull" ->
         Pass(isNot, received = Null,
              "Expected null but received " \o Show(received))
    [] m = "toBeDefined" ->
         Pass(isNot, received # Undef,
              "Expected defined but received undefined")
    [] m = "toThrow" ->
         LET call == CallReceived(received)
         IN IF isNot
            THEN IF call.threw
                 THEN Failed("Expected not to throw but threw "
                               \o Show(call.e))
                 ELSE Passed
            ELSE IF ~call.threw THEN Failed("Expected to throw but didn't")
                 ELSE CheckError(call.e, Arg(args))
    [] m = "toHaveBeenCalled" ->
         IF received.type # "mock" THEN NotAMock(received)
         ELSE Pass(isNot, Len(received.items) > 0,
                   "Expected mock to have been called")
    [] m = "toHaveBeenCalledWith" ->
         IF received.type # "mock" THEN NotAMock(received)
         ELSE LET wasCalled ==
                    \E i \in 1..Len(received.items) :
                      deepEqual(received.items[i], Arr(99, args))
              IN Pass(isNot, wasCalled,
                      "Expected mock to have been called with "
                        \o Json(Arr(99, args)))
    [] m = "toMatchSnapshot" -> Pass(isNot, TRUE, "Snapshot matched")
    [] m = "toBeOne" ->
         LET pass == StrictEquals(received, Num("1"))
         IN IF (IF isNot THEN pass ELSE ~pass)
            THEN Failed("not one") ELSE Passed
    [] OTHER -> Failed("expect(...)." \o m \o " is not a function")

ResolvedMessage == "Promise resolved but expected rejection"

\* throw val, as the caller sees it.
Throws(val) == Failed(IF val.type = "error" THEN val.v ELSE Show(val))

\* The async function createAsyncMatcher(type) gives for matcher name m,
\* called with args, once received has settled (settle) with val.
AsyncMatcher(type, settle, val, m, args) ==
  IF type = "resolves" /\ settle = "reject" THEN Throws(val)
  ELSE IF type = "rejects" /\ settle = "resolve" THEN Failed(ResolvedMessage)
  ELSE IF type = "rejects" /\ val \in {Null, Undef}
    THEN Failed("Cannot read properties of " \o val.v
                  \o " (reading 'message')")
  ELSE IF type = "rejects" /\ val.type = "error" /\ val.v = ResolvedMessage
    THEN Throws(val)
  ELSE IF m \notin MatcherNames THEN Passed
  ELSE IF m = "toThrow" THEN CheckError(val, Arg(args))
  ELSE Matchers(FALSE, m, val, args)

\* The values of the snippet.
Primitives ==
  {Num("0"), Num("1"), NaN, Str("boom"), Str(""), Null, Undef, Bool("true")}
Structures ==
  {Arr(1, <<Num("1")>>), Arr(2, <<Num("1")>>), Arr(3, <<NaN>>), Arr(4, <<>>),
   Obj(5, <<"x">>, <<Num("1")>>), Obj(6, <<"x">>, <<Num("1")>>),
   Obj(7, <<"y">>, <<Num("1")>>),
   Obj(8, <<"x", "y">>, <<Num("1"), Str("boom")>>),
   Obj(9, <<"y", "x">>, <<Str("boom"), Num("1")>>),
   Obj(10, <<"0">>, <<Num("1")>>),
   Arr(11, <<Obj(5, <<"x">>, <<Num("1")>>)>>),
   Arr(12, <<Obj(6, <<"x">>, <<Num("1")>>)>>),
   Obj(13, <<"x">>, <<Undef>>), Obj(14, <<"y">>, <<Undef>>)}
Plain == Primitives \cup Structures
Asymmetric == {any(20, "Number"), any(21, "String"), anything(22)}
Functions ==
  {Fn(30, "return"), Fn(31, "throwError"), Fn(32, "throwString")}
Mocks ==
  {Mock(40, <<>>), Mock(41, <<Arr(50, <<Num("1")>>)>>),
   Mock(42, <<Arr(51, <<NaN>>)>>),
   Mock(43, <<Arr(52, <<Num("0")>>), Arr(53, <<Num("1"), Str("boom")>>)>>),
   Mock(44, <<Arr(54, <<Arr(1, <<Num("1")>>)>>), Arr(55, <<>>)>>)}
ArgLists ==
  {<<>>, <<Num("1")>>, <<NaN>>, <<Num("1"), Str("boom")>>,
   <<any(20, "Number")>>, <<anything(22), any(21, "String")>>,
   <<Arr(2, <<Num("1")>>)>>, <<Num("1"), Undef>>}
SettledValues ==
  {Num("1"), Str("boom"), Null, Undef, Err(60, "boom"),
   Err(61, ResolvedMessage)}

\* A matcher call the snippet is about to make.
Call(kind, isNot, m, received, args, settle) ==
  [NoMatch EXCEPT !.kind = kind, !.isNot = isNot, !.m = m,
                  !.received = received, !.args = args, !.settle = settle]

\* The matcher calls of the snippets considered.
Calls ==
  {Call("sync", isNot, m, received, <<expected>>, "none") :
     isNot \in BOOLEAN, m \in {"toBe", "toEqual"},
     received \in Plain \cup Asymmetric, expected \in Plain \cup Asymmetric}
  \cup
  {Call("sync", isNot, m, received, <<>>, "none") :
     isNot \in BOOLEAN,
     m \in {"toBeTruthy", "toBeNull", "toBeDefined", "toMatchSnapshot",
            "toBeOne"},
     received \in Primitives}
  \cup
  {Call("sync", isNot, "toThrow", received, args, "none") :
     isNot \in BOOLEAN, received \in Functions \cup {Num("1")},
     args \in {<<>>, <<Str("boom")>>, <<Str("bang")>>, <<Err(62, "bang")>>}}
  \cup
  {Call("sync", isNot, m, received, args, "none") :
     isNot \in BOOLEAN,
     m \in {"toHaveBeenCalled", "toHaveBeenCalledWith"},
     received \in Mocks \cup {Num("1"), Null, Fn(30, "return")},
     args \in ArgLists}
  \cup
  {Call(type, FALSE, m, val, args, settle) :
     type \in {"resolves", "rejects"},
     m \in {"toBe", "toEqual", "toBeNull", "toBeDefined", "toThrow",
            "toBeOne", "toBeFoo"},
     val \in SettledValues,
     args \in {<<>>, <<Num("1")>>, <<Str("boom")>>, <<Null>>},
     settle \in {"resolve", "reject"}}

\* The snippet is code that makes one of the matcher calls, outside any
\* describe or test.
InitMatch ==
  /\ InitEnv
  /\ mockFn = NewMock(NoImpl)
  /\ lastOutcome = [type |-> "none", value |-> Undefined]
  /\ invoked = <<>>
  /\ cleared = NotCleared
  /\ object = [method |-> NoImpl, x |-> "a", original |-> NoImpl]
  /\ lastMatch \in Calls
  /\ runs = [n |-> 1, prior |-> FALSE]
  /\ InitExt

\* The matcher call ended with outcome: a throw ends the snippet, whose
\* wrapper logs it, and run() is next.
Ended(outcome) ==
  /\ lastMatch' = [lastMatch EXCEPT !.outcome = outcome]
  /\ IF outcome.type = "throw"
     THEN /\ logs' = LogLogs(currentTest,
                             "Runtime Error: " \o outcome.message)
          /\ phase' = "run"
     ELSE UNCHANGED <<logs, phase>>
  /\ rootIdx' = 1
  /\ UNCHANGED <<regVars, currentTest, frames, tpc, beforeEachHooks,
                 afterEachHooks, hidx, trace, throws>>
  /\ UNCHANGED <<timerVars, mockFn, lastOutcome, invoked, cleared, object,
                 runs, extVars>>

\* expect(received).m(...args) or expect(received).not.m(...args), at the
\* top level of the snippet.
ExpectValue ==
  /\ phase = "register" /\ lastMatch.kind = "sync"
  /\ lastMatch.outcome.type = "none"
  /\ Ended(Matchers(lastMatch.isNot, lastMatch.m, lastMatch.received,
                    lastMatch.args))

\* await expect(p).resolves.m(...args) or .rejects.m(...args), at the top
\* level of the snippet, p a promise that settles.
ExpectSettled ==
  /\ phase = "register" /\ lastMatch.kind \in {"resolves", "rejects"}
  /\ lastMatch.outcome.type = "none"
  /\ Ended(AsyncMatcher(lastMatch.kind, lastMatch.settle, lastMatch.received,
                        lastMatch.m, lastMatch.args))

NextMatch ==
  \/ ExpectValue
  \/ ExpectSettled
  \/ Run
  \/ RunLoop

SpecMatch == InitMatch /\ [][NextMatch]_vars

\* ---------------------------------------------------------------- mocks
\* What receiver.f(...args) gives the caller; f(...args) is the call with
\* receiver undefined. A method of kind "this" returns this.x: called
\* without a receiver, this is undefined in strict code (a class method),
\* where reading this.x throws a TypeError, and the global object in sloppy
\* code, which has no x.
Invoke(f, receiver, args) ==
  IF f.kind = "throw" THEN [type |-> "throw", value |-> f.value]
  ELSE IF f.kind = "this"
       THEN IF receiver # Undefined
            THEN [type |-> "return", value |-> object.x]
            ELSE IF f.value = "strict"
                 THEN [type |-> "throw", value |-> "TypeError"]
                 ELSE [type |-> "return", value |-> Undefined]
       ELSE [type |-> "return", value |-> f.value]

\* What implementation(...args) gives the mock.
Apply(f, args) ==
  IF f.kind = "throw" THEN [type |-> "throw", value |-> f.value]
  ELSE IF f.kind = "this" THEN Invoke(f, Undefined, args)
  ELSE [type |-> "return", value |-> f.value]

\* Variant: the constructor-supplied default wins over the persistent
\* implementation.
ImplementationDefaultFirst(m) == IF m.impl # NoImpl THEN m.impl ELSE m._impl

\* mockFn._impl || impl
Implementation(m) == IF m._impl # NoImpl THEN m._impl ELSE m.impl

\* mockFn(...args): the call is logged, the implementation is chosen and
\* called; its result is logged and returned.  An implementation that throws
\* leaves the mock at once, before results.push.
MockCall(args) ==
  /\ Len(mockFn.calls) < MaxInvocations
  /\ invoked' = Append(invoked, args)
  /\ cleared' = IF cleared.op # "none" /\ cleared.age = 0
                THEN [cleared EXCEPT !.age = 1]
                ELSE NotCleared
  /\ LET called == [mockFn EXCEPT !.calls = Append(@, args)]
     IN IF Len(called._onceImplementations) > 0
        THEN LET onceImpl == Head(called._onceImplementations)
                 shifted == [called EXCEPT !._onceImplementations = Tail(@)]
                 result == Apply(onceImpl, args)
             IN /\ lastOutcome' = result
                /\ mockFn' = IF result.type = "throw" THEN shifted
                             ELSE [shifted EXCEPT !.results = Append(@, result)]
        ELSE LET implementation == Implementation(called)
                 result == IF implementation # NoImpl
                           THEN Apply(implementation, args)
                           ELSE [type |-> "return", value |-> Undefined]
             IN /\ lastOutcome' = result
                /\ mockFn' = IF result.type = "throw" THEN called
                             ELSE [called EXCEPT !.results = Append(@, result)]
  /\ UNCHANGED <<envVars, timerVars, libVars>>

\* withImpl(implementation)
WithImpl(implementation) ==
  /\ mockFn' = [mockFn EXCEPT !._impl = implementation]
  /\ cleared' = NotCleared
  /\ UNCHANGED <<envVars, timerVars, libVars, lastOutcome, invoked>>

\* withOnce(implementation)
WithOnce(implementation) ==
  /\ Len(mockFn._onceImplementations) < MaxOnce
  /\ mockFn' = [mockFn EXCEPT !._onceImplementations = Append(@, implementation)]
  /\ cleared' = NotCleared
  /\ UNCHANGED <<envVars, timerVars, libVars, lastOutcome, invoked>>

MockReturnValue(val) == WithImpl(Returning(val))
MockImplementation(f) == WithImpl(f)
MockReturnValueOnce(val) == WithOnce(Returning(val))
MockImplementationOnce(f) == WithOnce(f)

\* What the mock held when op (mockClear or mockReset) was called.
Before(op, m) ==
  [op |-> op, _impl |-> m._impl, queue |-> m._onceImplementations,
   calls |-> Len(m.calls), age |-> 0]

\* Variant: the call log is kept.
ClearedResults(m) ==
  [m EXCEPT !.results = <<>>, !._onceImplementations = <<>>]

\* The value of mockFn.mock after mockClear.
Cleared(m) ==
  [m EXCEPT !.calls = <<>>, !.results = <<>>, !._onceImplementations = <<>>]

\* mockFn.mockClear()
MockClear ==
  /\ mockFn' = Cleared(mockFn)
  /\ invoked' = <<>>
  /\ cleared' = Before("clear", mockFn)
  /\ UNCHANGED <<envVars, timerVars, libVars, lastOutcome>>

\* mockFn.mockReset()
MockReset ==
  /\ mockFn' = [Cleared(mockFn) EXCEPT !._impl = NoImpl]
  /\ invoked' = <<>>
  /\ cleared' = Before("reset", mockFn)
  /\ UNCHANGED <<envVars, timerVars, libVars, lastOutcome>>

\* A mock made by jest.fn() or jest.fn(impl), then used.
InitMock ==
  /\ InitEnv
  /\ InitLib
  /\ \E impl \in Impls \cup {NoImpl} : mockFn = NewMock(impl)
  /\ lastOutcome = [type |-> "none", value |-> Undefined]
  /\ invoked = <<>>
  /\ cleared = NotCleared

NextMock ==
  \/ \E args \in ArgTuples : MockCall(args)
  \/ \E val \in Values : MockReturnValue(val)
  \/ \E f \in Impls : MockImplementation(f)
  \/ \E val \in Values : MockReturnValueOnce(val)
  \/ \E f \in Impls : MockImplementationOnce(f)
  \/ MockClear
  \/ MockReset

SpecMock == InitMock /\ [][NextMock]_vars

\* ---------------------------------------------------------------- spyOn
\* The functions an object's method can be: one that returns "a" or "b",
\* one that throws, or one that returns this.x, in strict or sloppy code.
Methods ==
  Impls \cup {[kind |-> "this", value |-> "strict"],
              [kind |-> "this", value |-> "sloppy"]}

\* object[methodName] when the mock made by spyOn is installed.
TheMock == [kind |-> "mock", value |-> "mockFn"]

\* object.method = f, by the snippet, while no spy is installed.
Assign(f) ==
  /\ object.method # TheMock
  /\ object' = [object EXCEPT !.method = f]
  /\ UNCHANGED <<envVars, timerVars, mockFn, lastOutcome, invoked, cleared,
                 lastMatch, runs, extVars>>

\* jest.spyOn(object, 'method'): throws unless the property is a function;
\* otherwise a mock made by this.fn(original) takes the place of the method.
SpyOn ==
  /\ object.method # TheMock
  /\ IF object.method = NoImpl
     THEN /\ lastOutcome' = [type |-> "throw",
                             value |-> "Cannot spy on method property of object"]
          /\ UNCHANGED <<mockFn, invoked, cleared, object>>
     ELSE /\ mockFn' = NewMock(object.method)
          /\ object' = [object EXCEPT !.method = TheMock,
                                      !.original = object.method]
          /\ lastOutcome' = [type |-> "none", value |-> Undefined]
          /\ invoked' = <<>>
          /\ cleared' = NotCleared
  /\ UNCHANGED <<envVars, timerVars, lastMatch, runs, extVars>>

\* object.method(...args): through the mock while the spy is installed.
CallMethod(args) ==
  /\ object.method # NoImpl
  /\ IF object.method = TheMock
     THEN MockCall(args)
     ELSE /\ lastOutcome' = Invoke(object.method, "object", args)
          /\ UNCHANGED <<envVars, timerVars, mockFn, invoked, cleared, libVars>>

\* mockFn.mockRestore(): object[methodName] = original.
MockRestore ==
  /\ object.original # NoImpl
  /\ object' = [object EXCEPT !.method = object.original]
  /\ UNCHANGED <<envVars, timerVars, mockFn, lastOutcome, invoked, cleared,
                 lastMatch, runs, extVars>>

NextSpy ==
  \/ \E f \in Methods : Assign(f)
  \/ SpyOn
  \/ \E args \in ArgTuples : CallMethod(args)
  \/ \E val \in Values : MockReturnValue(val)
  \/ \E f \in Impls : MockImplementationOnce(f)
  \/ MockClear
  \/ MockReset
  \/ MockRestore

SpecSpy == Init /\ [][NextSpy]_vars

\* ---------------------------------------------------------------- builders
\* describe: the builder of the active suite throws e.  The catch block logs
\* e.message and the previous container is restored.  Reading e.message of
\* null or undefined throws out of the catch block, past the restoring
\* assignment: the enclosing describe catches that TypeError as the error of
\* its own builder, and with no enclosing describe it ends the snippet: the
\* try/catch that wraps the snippet logs it as a runtime error, and run() is
\* called with whatever was registered.
DescribeThrow(e) ==
  /\ phase = "register"
  /\ describeStack # <<>>
  /\ throws < MaxThrows
  /\ throws' = throws + 1
  /\ trace' = Append(trace, Event("builder", currentSuite, "throw", e))
  /\ IF HasProps(e)
     THEN /\ logs' = LogLogs(currentTest,
                             "Error in describe block: " \o MessageOf(e))
          /\ currentSuite' = Last(describeStack)
          /\ describeStack' = Front(describeStack)
          /\ UNCHANGED <<tests, currentTest, phase, frames, tpc, hidx,
                         beforeEachHooks, afterEachHooks, rootIdx>>
     ELSE IF Len(describeStack) > 1
     THEN /\ logs' = LogLogs(currentTest,
                             "Error in describe block: "
                               \o MessageOf(TypeErrorOf(e)))
          /\ currentSuite' = Last(Front(describeStack))
          /\ describeStack' = Front(Front(describeStack))
          /\ UNCHANGED <<tests, currentTest, phase, frames, tpc, hidx,
                         beforeEachHooks, afterEachHooks>>
          /\ UNCHANGED rootIdx
     ELSE /\ logs' = LogLogs(currentTest,
                             "Runtime Error: " \o MessageOf(TypeErrorOf(e)))
          /\ describeStack' = <<>>
          /\ phase' = "run"
          /\ rootIdx' = 1
          /\ UNCHANGED <<currentSuite, tests, currentTest, frames, tpc, hidx,
                         beforeEachHooks, afterEachHooks>>
  /\ UNCHANGED <<suites, rootSuites, nHooks, matcherCalls>>
  /\ UNCHANGED <<mockVars, timerVars>>

\* Snippets of up to three suites, two tests and one before-each hook whose
\* builders may throw, and their runs.
DescribeBounds == [suites |-> 3, tests |-> 2, hooks |-> 1, calls |-> 5]

NextDescribe ==
  \/ Describe(DescribeBounds)
  \/ DescribeReturn
  \/ \E e \in Thrown : DescribeThrow(e)
  \/ Test(DescribeBounds)
  \/ BeforeEach(DescribeBounds)
  \/ Run
  \/ RunLoop
  \/ RunSuiteStage
  \/ RunSuiteChild
  \/ RunTest
  \/ ExecuteHookReturn
  \/ RunTestBody
  \/ BodyReturn
  \/ RunTestCheck

SpecDescribe == Init /\ [][NextDescribe]_vars

\* ---------------------------------------------------------------- late work
\* What the late work of a body leaves alone of the library's variables.
notLate == <<mockFn, lastOutcome, invoked, cleared, object, lastMatch, runs,
             spied, mockRegistry>>

\* The body of the current test starts work it does not await: a callback
\* on a promise chain or on a timer of the host.
LeaveBehind ==
  /\ phase = "run" /\ tpc = "body"
  /\ currentTest \notin late
  /\ late' = late \cup {currentTest}
  /\ UNCHANGED <<envVars, timerVars, notLate>>

\* The callback test a left behind runs once a's window has closed, while
\* the runner waits for the body of another test or after the run. It calls
\* expect(1).toBe(1) and console.log('late'): expect counts for
\* env.currentTest and log writes to env.currentTest, whichever test that is
\* now, and to env.logs when there is none.
LateCallback(a) ==
  /\ a \in late
  /\ currentTest # a
  /\ \/ phase = "run" /\ tpc = "body"
     \/ phase = "done"
  /\ late' = late \ {a}
  /\ trace' = Append(trace, Event("late", a, "return", Returned))
  /\ tests' = LogTests(IF currentTest # None
                       THEN [tests EXCEPT ![currentTest].assertionsCount = @ + 1]
                       ELSE tests,
                       currentTest, "late")
  /\ logs' = LogLogs(currentTest, "late")
  /\ UNCHANGED <<suites, rootSuites, currentSuite, currentTest, describeStack,
                 nHooks, phase, runVars, throws, matcherCalls>>
  /\ UNCHANGED <<timerVars, notLate>>

\* Runs of snippets with up to two tests, each in a Root suite of its own,
\* whose bodies leave work behind.
LateBounds == [suites |-> 2, tests |-> 2, hooks |-> 0, calls |-> 4]

NextLate ==
  \/ Test(LateBounds)
  \/ Run
  \/ RunLoop
  \/ RunSuiteStage
  \/ RunTest
  \/ RunTestBody
  \/ BodyReturn
  \/ \E e \in Thrown : BodyThrow("throw", e)
  \/ RunTestCheck
  \/ \E n \in 0..MaxDeclared : ExpectAssertions(n)
  \/ LeaveBehind
  \/ \E a \in 1..MaxTests : LateCallback(a)

SpecLate == Init /\ [][NextLate]_vars

\* ---------------------------------------------------------------- spies
MaxSpies == 3   \* calls of spyOn for the method
MaxSpyCalls == 1  \* calls recorded by one mock

\* What the other library actions leave alone.
notSpied == <<envVars, timerVars, mockFn, lastOutcome, invoked, cleared,
              object, lastMatch, runs, late, mockRegistry>>

\* jest.spyOn(object, methodName) once more: original is whatever function
\* is in object[methodName] now, and the new mock, made by this.fn(original),
\* takes its place.
SpyOnAgain ==
  /\ Len(spied.originals) < MaxSpies
  /\ spied' = [spied EXCEPT !.originals = Append(@, spied.method),
                            !.calls = Append(@, 0),
                            !.method = Len(spied.originals) + 1]
  /\ UNCHANGED notSpied

\* The mocks a call of function f goes through: the mock of spy f records
\* the call and calls its implementation, the function that spyOn found.
RECURSIVE Through(_)
Through(f) == IF f = 0 THEN {} ELSE {f} \cup Through(spied.originals[f])

\* object[methodName](...)
CallSpied ==
  /\ \A k \in Through(spied.method) : spied.calls[k] < MaxSpyCalls
  /\ spied.method # 0
  /\ spied' = [spied EXCEPT !.calls =
                 [k \in 1..Len(@) |->
                    IF k \in Through(spied.method) THEN @[k] + 1 ELSE @[k]]]
  /\ UNCHANGED notSpied

\* The mockRestore of the k-th spy: object[methodName] = original.
RestoreSpy(k) ==
  /\ k \in 1..Len(spied.originals)
  /\ spied' = [spied EXCEPT !.method = spied.originals[k],
                            !.restored = @ \cup {k}]
  /\ UNCHANGED notSpied

\* A snippet that spies on one method several times.
NextSpies ==
  \/ SpyOnAgain
  \/ CallSpied
  \/ \E k \in 1..MaxSpies : RestoreSpy(k)

SpecSpies == Init /\ [][NextSpies]_vars

\* ---------------------------------------------------------------- jest.mock
MaxReads == 3   \* member reads of the mocked module by the snippet

\* this.fn(): one more function, not called yet.
WithFn(registry) == [registry EXCEPT !.calls = Append(@, 0)]

\* jest.mock(moduleName, factory): the registry holds the object the factory
\* returns, here { get: jest.fn() }; jest.mock(moduleName): it holds a proxy
\* over a new empty target.
JestMock(factory) ==
  /\ Len(mockRegistry.calls) < MaxReads
  /\ mockRegistry' =
       IF factory
       THEN [WithFn(mockRegistry) EXCEPT
               !.kind = "factory",
               !.target = [prop \in Members |->
                             IF prop = "get" THEN Len(mockRegistry.calls) + 1
                             ELSE 0],
               !.reads = <<>>]
       ELSE [mockRegistry EXCEPT !.kind = "auto",
                                 !.target = [prop \in Members |-> 0],
                                 !.reads = <<>>]
  /\ UNCHANGED <<envVars, timerVars, mockFn, lastOutcome, invoked, cleared,
                 object, lastMatch, runs, spied, late>>

\* The get trap of the auto-mock proxy: a new function for 'default', and
\* for another name the function of the target, made at the first read.
AutoMockGet(registry, prop) ==
  IF prop = "default" \/ registry.target[prop] = 0
  THEN LET made == WithFn(registry)
           f == Len(made.calls)
       IN [made EXCEPT !.target[prop] = IF prop = "default" THEN @ ELSE f,
                       !.reads = Append(@, [prop |-> prop, f |-> f])]
  ELSE [registry EXCEPT
          !.reads = Append(@, [prop |-> prop, f |-> registry.target[prop]])]

\* require(moduleName)[prop]: the member of what the registry holds, and a
\* new function when the module is not registered.
RequireGet(prop) ==
  /\ Len(mockRegistry.reads) < MaxReads
  /\ Len(mockRegistry.calls) < MaxReads
  /\ mockRegistry' =
       CASE mockRegistry.kind = "auto" -> AutoMockGet(mockRegistry, prop)
         [] mockRegistry.kind = "factory" ->
              [mockRegistry EXCEPT
                 !.reads = Append(@, [prop |-> prop,
                                      f |-> mockRegistry.target[prop]])]
         [] OTHER ->
              LET made == WithFn(mockRegistry)
              IN [made EXCEPT
                    !.reads = Append(@, [prop |-> prop, f |-> Len(made.calls)])]
  /\ UNCHANGED <<envVars, timerVars, mockFn, lastOutcome, invoked, cleared,
                 object, lastMatch, runs, spied, late>>

\* The snippet calls the function its i-th read returned.
CallMember(i) ==
  /\ i \in 1..Len(mockRegistry.reads)
  /\ mockRegistry.reads[i].f # 0
  /\ mockRegistry.calls[mockRegistry.reads[i].f] < 1
  /\ mockRegistry' = [mockRegistry EXCEPT !.calls[mockRegistry.reads[i].f] = @ + 1]
  /\ UNCHANGED <<envVars, timerVars, mockFn, lastOutcome, invoked, cleared,
                 object, lastMatch, runs, spied, late>>

\* A snippet that mocks a module and uses its members.
NextRegistry ==
  \/ \E factory \in BOOLEAN : JestMock(factory)
  \/ \E prop \in Members : RequireGet(prop)
  \/ \E i \in 1..MaxReads : CallMember(i)

SpecRegistry == Init /\ [][NextRegistry]_vars

\* ---------------------------------------------------------------- timers
MaxTimerIds == 1   \* timer ids a snippet allocates by setTimeout/setInterval
MaxDelay == 2      \* largest delay or period passed to setTimeout/setInterval
MaxAdvance == 4    \* largest ms passed to advanceTimersByTime
MaxTime == 5       \* clock controls are called up to this virtual time
MaxTimerLogs == 1  \* clock controls are called while env.logs is shorter

\* interval: undefined of a one-shot timer.
NoInterval == -1

\* Timer callbacks: one that returns, one that throws e, and one that calls
\* setTimeout with itself and a positive delay.
Callbacks ==
  {[kind |-> "return", e |-> NewError("boom"), delay |-> 0]}
    \cup {[kind |-> "throw", e |-> e, delay |-> 0] : e \in Thrown}
    \cup {[kind |-> "setTimeout", e |-> NewError("boom"), delay |-> 1]}

\* The clock as a clock control sees and changes it while it runs.
Clock ==
  [timers |-> timers, currentTime |-> currentTime,
   timerIdCounter |-> timerIdCounter, logs |-> logs, fired |-> <<>>,
   outcome |-> [type |-> "return", message |-> Undefined]]

\* this.timers.push({id, callback, dueTime: currentTime + delay, ...})
Pushed(c, callback, delay, isInterval) ==
  [c EXCEPT !.timers = Append(@, [id |-> c.timerIdCounter,
                                  callback |-> callback,
                                  dueTime |-> c.currentTime + delay,
                                  isInterval |-> isInterval,
                                  interval |-> IF isInterval THEN delay
                                               ELSE NoInterval]),
            !.timerIdCounter = @ + 1]

\* this.timers.filter(t => t.id !== id)
RECURSIVE Without(_, _)
Without(ts, id) ==
  IF ts = <<>> THEN <<>>
  ELSE IF Head(ts).id = id THEN Without(Tail(ts), id)
  ELSE <<Head(ts)>> \o Without(Tail(ts), id)

\* this.timers.filter(t => t.dueTime <= targetTime)
RECURSIVE DueBy(_, _)
DueBy(ts, targetTime) ==
  IF ts = <<>> THEN <<>>
  ELSE IF Head(ts).dueTime <= targetTime
    THEN <<Head(ts)>> \o DueBy(Tail(ts), targetTime)
  ELSE DueBy(Tail(ts), targetTime)

\* The first element of ts.sort((a, b) => a.dueTime - b.dueTime): the sort is
\* stable, so it is the earliest element of ts with the smallest due time.
First(ts) ==
  ts[CHOOSE i \in 1..Len(ts) :
       \A j \in 1..Len(ts) :
          \/ ts[i].dueTime < ts[j].dueTime
          \/ ts[i].dueTime = ts[j].dueTime /\ i <= j]

\* ts.sort((a, b) => a.dueTime - b.dueTime)
RECURSIVE Sorted(_)
Sorted(ts) ==
  IF ts = <<>> THEN <<>>
  ELSE <<First(ts)>> \o Sorted(Without(ts, First(ts).id))

\* this.timers.find(t => t.id === id) is defined
Pending(ts, id) == \E i \in 1..Len(ts) : ts[i].id = id

\* try { timer.callback() } catch (e) { this.log(...e.message) } with the
\* clock at timer.dueTime; pending lists the timers pending at that moment
\* and nextId is the id counter then.
\* Reading e.message of null or undefined throws out of the catch block.
Fire(c, timer) ==
  LET at == [c EXCEPT !.currentTime = timer.dueTime,
                      !.fired = Append(@, [id |-> timer.id,
                                           time |-> timer.dueTime,
                                           pending |-> c.timers,
                                           nextId |-> c.timerIdCounter])]
      callback == timer.callback
  IN IF callback.kind = "return" THEN at
     ELSE IF callback.kind = "setTimeout"
       THEN Pushed(at, callback, callback.delay, FALSE)
     ELSE IF callback.kind = "clearTimeout"
       THEN [at EXCEPT !.timers = Without(@, callback.id)]
     ELSE IF HasProps(callback.e)
       THEN [at EXCEPT !.logs =
               Append(@, "Error in timer callback: " \o MessageOf(callback.e))]
     ELSE [at EXCEPT !.outcome =
             [type |-> "throw", message |-> TypeErrorOf(callback.e).message]]

\* After the callback: an interval with a non-zero period is re-armed, any
\* other timer is removed.
Settled(c, timer) ==
  IF timer.isInterval /\ timer.interval # 0
  THEN [c EXCEPT !.timers =
          [i \in 1..Len(@) |->
             IF @[i].id = timer.id
             THEN [@[i] EXCEPT !.dueTime = timer.dueTime + timer.interval]
             ELSE @[i]]]
  ELSE [c EXCEPT !.timers = Without(@, timer.id)]

\* The pending timers without their ids. An iteration of the while loop of
\* advanceTimersByTime uses the ids only to tell the timers apart, so what
\* the loop does from an iteration on is a function of this list.
Shape(ts) ==
  [i \in 1..Len(ts) |->
     [callback |-> ts[i].callback, dueTime |-> ts[i].dueTime,
      isInterval |-> ts[i].isInterval, interval |-> ts[i].interval]]

\* The call never returns.
Hangs == [type |-> "hang", message |-> Undefined]

\* The while loop of advanceTimersByTime and the assignment that follows it;
\* seen holds the shapes the iterations so far started with. An iteration
\* that starts with one of them again is followed by the same iterations
\* for ever: the loop never breaks.
RECURSIVE AdvanceLoopFrom(_, _, _)
AdvanceLoopFrom(c, targetTime, seen) ==
  LET activeTimers == DueBy(c.timers, targetTime)
  IN IF Len(activeTimers) = 0 THEN [c EXCEPT !.currentTime = targetTime]
     ELSE IF Shape(c.timers) \in seen THEN [c EXCEPT !.outcome = Hangs]
     ELSE LET timer == First(activeTimers)
              ran == Fire(c, timer)
          IN IF ran.outcome.type = "throw" THEN ran
             ELSE AdvanceLoopFrom(Settled(ran, timer), targetTime,
                                  seen \cup {Shape(c.timers)})

AdvanceLoop(c, targetTime) == AdvanceLoopFrom(c, targetTime, {})

\* Variant: every timer of the snapshot is fired, pending or not.
RECURSIVE PendingLoopSnapshot(_, _)
PendingLoopSnapshot(c, pendingTimers) ==
  IF pendingTimers = <<>> THEN c
  ELSE LET timer == Head(pendingTimers)
           ran == Fire(c, timer)
       IN IF ran.outcome.type = "throw" THEN ran
          ELSE PendingLoopSnapshot(Settled(ran, timer), Tail(pendingTimers))

\* The for loop of runOnlyPendingTimers over the sorted snapshot.
RECURSIVE PendingLoop(_, _)
PendingLoop(c, pendingTimers) ==
  IF pendingTimers = <<>> THEN c
  ELSE LET timer == Head(pendingTimers)
       IN IF ~Pending(c.timers, timer.id)
          THEN PendingLoop(c, Tail(pendingTimers))
          ELSE LET ran == Fire(c, timer)
               IN IF ran.outcome.type = "throw" THEN ran
                  ELSE PendingLoop(Settled(ran, timer), Tail(pendingTimers))

\* The record of a call of setTimeout, setInterval, clearTimeout or
\* clearInterval.
Other(op) == [NoCall EXCEPT !.op = op]

\* The record of a call of a clock control.
Called(op, ms, c) ==
  [op |-> op, active |-> useFakeTimersFlag, start |-> currentTime, ms |-> ms,
   before |-> timers, fired |-> c.fired, outcome |-> c.outcome]

\* The clock control leaves the clock as c.
Leave(c) ==
  /\ timers' = c.timers
  /\ currentTime' = c.currentTime
  /\ timerIdCounter' = c.timerIdCounter
  /\ logs' = c.logs

\* What the timer actions leave alone.
notClock == <<suites, tests, rootSuites, currentSuite, currentTest,
              describeStack, nHooks, phase, rootIdx, frames, tpc,
              beforeEachHooks, afterEachHooks, hidx, trace, throws,
              matcherCalls>>

\* Variant: the pending timers survive the activation.
UseFakeTimersKeep ==
  /\ useFakeTimersFlag' = TRUE
  /\ currentTime' = 0
  /\ lastCall' = Called("useFakeTimers", 0, Clock)
  /\ UNCHANGED <<timers, timerIdCounter, logs, notClock, mockVars>>

\* jest.useFakeTimers()
UseFakeTimers ==
  /\ useFakeTimersFlag' = TRUE
  /\ currentTime' = 0
  /\ timers' = <<>>
  /\ lastCall' = Called("useFakeTimers", 0, Clock)
  /\ UNCHANGED <<timerIdCounter, logs, notClock, mockVars>>

\* Variant: deactivation starts the timer ids again.
UseRealTimersNewIds ==
  /\ useFakeTimersFlag' = FALSE
  /\ timers' = <<>>
  /\ timerIdCounter' = 1
  /\ lastCall' = Called("useRealTimers", 0, Clock)
  /\ UNCHANGED <<currentTime, logs, notClock, mockVars>>

\* jest.useRealTimers()
UseRealTimers ==
  /\ useFakeTimersFlag' = FALSE
  /\ timers' = <<>>
  /\ lastCall' = Called("useRealTimers", 0, Clock)
  /\ UNCHANGED <<currentTime, timerIdCounter, logs, notClock, mockVars>>

\* _setTimer(callback, delay, isInterval, originalFn); without fake timers
\* the timer goes to the host's originalFn. The snippet calls it while the
\* id counter is at most limit.
SetTimerWithin(limit, op, callback, delay, isInterval) ==
  /\ timerIdCounter <= limit
  /\ lastCall' = [Other(op) EXCEPT !.active = useFakeTimersFlag,
                                   !.start = currentTime, !.ms = delay]
  /\ IF ~useFakeTimersFlag
     THEN UNCHANGED <<timers, currentTime, timerIdCounter, logs>>
     ELSE Leave(Pushed(Clock, callback, delay, isInterval))
  /\ UNCHANGED <<useFakeTimersFlag, notClock, mockVars>>

SetTimer(op, callback, delay, isInterval) ==
  SetTimerWithin(MaxTimerIds, op, callback, delay, isInterval)

SetTimeout(callback, delay) == SetTimer("setTimeout", callback, delay, FALSE)
SetInterval(callback, interval) ==
  SetTimer("setInterval", callback, interval, TRUE)

\* _clearTimer(id, originalFn)
ClearTimer(id) ==
  /\ lastCall' = [Other("clearTimer") EXCEPT !.active = useFakeTimersFlag,
                                             !.start = currentTime,
                                             !.ms = id, !.before = timers]
  /\ IF ~useFakeTimersFlag THEN UNCHANGED timers
     ELSE timers' = Without(timers, id)
  /\ UNCHANGED <<useFakeTimersFlag, currentTime, timerIdCounter, logs,
                 notClock, mockVars>>

\* Clock controls are followed while the clock and env.logs are small.
Small ==
  /\ currentTime <= MaxTime
  /\ Len(logs) < MaxTimerLogs
  /\ \A i \in 1..Len(timers) : timers[i].dueTime <= MaxTime

\* jest.advanceTimersByTime(ms)
AdvanceTimersByTime(ms) ==
  /\ Small /\ currentTime + ms <= MaxTime
  /\ LET c == IF ~useFakeTimersFlag THEN Clock
              ELSE AdvanceLoop(Clock, currentTime + ms)
     IN /\ Leave(c)
        /\ lastCall' = Called("advanceTimersByTime", ms, c)
  /\ UNCHANGED <<useFakeTimersFlag, notClock, mockVars>>

\* jest.advanceTimersToNextTimer()
AdvanceTimersToNextTimer ==
  /\ Small
  /\ LET nextTimer == timers[CHOOSE i \in 1..Len(timers) :
                               \A j \in 1..Len(timers) :
                                  \/ timers[i].dueTime < timers[j].dueTime
                                  \/ /\ timers[i].dueTime = timers[j].dueTime
                                     /\ j <= i]
         ms == nextTimer.dueTime - currentTime
         c == IF ~useFakeTimersFlag \/ Len(timers) = 0 THEN Clock
              ELSE IF ms > 0 THEN AdvanceLoop(Clock, currentTime + ms)
              ELSE Clock
     IN /\ Leave(c)
        /\ lastCall' = Called("advanceTimersToNextTimer", 0, c)
  /\ UNCHANGED <<useFakeTimersFlag, notClock, mockVars>>

\* jest.runOnlyPendingTimers()
RunOnlyPendingTimers ==
  /\ Small
  /\ LET c == IF ~useFakeTimersFlag \/ Len(timers) = 0 THEN Clock
              ELSE PendingLoop(Clock, Sorted(timers))
     IN /\ Leave(c)
        /\ lastCall' = Called("runOnlyPendingTimers", 0, c)
  /\ UNCHANGED <<useFakeTimersFlag, notClock, mockVars>>

\* A snippet that uses the clock controls.
NextTimers ==
  \/ UseFakeTimers
  \/ UseRealTimers
  \/ \E callback \in Callbacks, delay \in 0..MaxDelay :
        SetTimeout(callback, delay)
  \/ \E callback \in Callbacks, interval \in 0..MaxDelay :
        SetInterval(callback, interval)
  \/ \E id \in 1..MaxTimerIds : ClearTimer(id)
  \/ \E ms \in 0..MaxAdvance : AdvanceTimersByTime(ms)
  \/ AdvanceTimersToNextTimer
  \/ RunOnlyPendingTimers

SpecTimers == Init /\ [][NextTimers]_vars

\* ---------------------------------------------------------------- timer ids
MaxClockIds == 2   \* setTimeout/setInterval are called up to this id counter
MaxClockTime == 2  \* the snippet goes on up to this virtual time

\* Timer callbacks: one that returns, one that calls setTimeout with itself
\* and a positive delay, and one that calls clearTimeout(id).
ClockCallbacks ==
  {[kind |-> "return", e |-> NewError("boom"), delay |-> 0],
   [kind |-> "setTimeout", e |-> NewError("boom"), delay |-> 1]}
    \cup {[kind |-> "clearTimeout", e |-> NewError("boom"), delay |-> 0,
           id |-> id] : id \in 1..MaxClockIds}

\* The snippet goes on while the clock and the due times are small.
ClockBounds ==
  /\ currentTime <= MaxClockTime
  /\ \A i \in 1..Len(timers) : timers[i].dueTime <= MaxClockTime

\* A snippet with several timers whose callbacks return, schedule or cancel.
NextClock ==
  \/ ClockBounds /\ UseFakeTimers
  \/ ClockBounds /\ UseRealTimers
  \/ \E callback \in ClockCallbacks, delay \in {0, MaxDelay} :
        /\ ClockBounds
        /\ SetTimerWithin(MaxClockIds, "setTimeout", callback, delay, FALSE)
  \/ \E callback \in ClockCallbacks, interval \in {0, 1} :
        /\ ClockBounds
        /\ SetTimerWithin(MaxClockIds, "setInterval", callback, interval, TRUE)
  \/ \E id \in 1..MaxClockIds : ClockBounds /\ ClearTimer(id)
  \/ \E ms \in {0, 1} : ClockBounds /\ AdvanceTimersByTime(ms)
  \/ ClockBounds /\ AdvanceTimersToNextTimer
  \/ ClockBounds /\ RunOnlyPendingTimers

SpecClock == Init /\ [][NextClock]_vars

\* ---------------------------------------------------------------- timer loop
MaxLoopIds == 4   \* the snippet goes on up to this id counter

\* Timer callbacks: one that returns and one that calls setTimeout with
\* itself, with delay 0 or 1.
LoopCallbacks ==
  {[kind |-> "return", e |-> NewError("boom"), delay |-> 0]}
    \cup {[kind |-> "setTimeout", e |-> NewError("boom"), delay |-> delay] :
            delay \in {0, 1}}

\* The snippet goes on while no call hangs and the clock and the ids are
\* small.
LoopBounds ==
  /\ ClockBounds
  /\ timerIdCounter <= MaxLoopIds
  /\ lastCall.outcome # Hangs

\* A snippet with timers whose callbacks schedule timers.
NextLoop ==
  \/ LoopBounds /\ UseFakeTimers
  \/ \E callback \in LoopCallbacks, delay \in {0, 1} :
        /\ LoopBounds
        /\ SetTimerWithin(MaxClockIds, "setTimeout", callback, delay, FALSE)
  \/ \E callback \in LoopCallbacks, interval \in {0, 1} :
        /\ LoopBounds
        /\ SetTimerWithin(MaxClockIds, "setInterval", callback, interval, TRUE)
  \/ \E ms \in {0, 1} : LoopBounds /\ AdvanceTimersByTime(ms)
  \/ LoopBounds /\ AdvanceTimersToNextTimer
  \/ LoopBounds /\ RunOnlyPendingTimers

SpecLoop == Init /\ [][NextLoop]_vars

\* ---------------------------------------------------------------- runCode
MaxRuns == 2   \* calls of runCode

\* Variant: the virtual clock and the timer list belong to the module and
\* outlive the environment.
NewJestEnvironmentSharedClock ==
  /\ suites' = <<>>
  /\ tests' = <<>>
  /\ rootSuites' = <<>>
  /\ currentSuite' = None
  /\ currentTest' = None
  /\ logs' = <<>>
  /\ UNCHANGED <<useFakeTimersFlag, currentTime, timers, timerIdCounter>>

\* new JestEnvironment(): the field initialisers and the constructor.
NewJestEnvironment ==
  /\ suites' = <<>>
  /\ tests' = <<>>
  /\ rootSuites' = <<>>
  /\ currentSuite' = None
  /\ currentTest' = None
  /\ logs' = <<>>
  /\ useFakeTimersFlag' = FALSE
  /\ currentTime' = 0
  /\ timers' = <<>>
  /\ timerIdCounter' = 1

\* The run left something behind in every part of the environment: a suite
\* tree, a log line, a mock that was called, and a clock that was switched
\* on and moved or holds a timer.
LeftBehind ==
  /\ suites # <<>> /\ mockFn.calls # <<>>
  /\ (logs # <<>> \/ \E t \in 1..Len(tests) : tests[t].logs # <<>>)
  /\ useFakeTimersFlag /\ (currentTime > 0 \/ timers # <<>>)

\* runCode(code), called again once the previous call has returned: a new
\* environment, a new context object, and the snippet starts over, so the
\* values it makes (mocks, objects) are new as well.
RunCode ==
  /\ phase \in {"done", "aborted"}
  /\ runs.n < MaxRuns
  /\ runs' = [n |-> runs.n + 1, prior |-> LeftBehind]
  /\ NewJestEnvironment
  /\ describeStack' = <<>>
  /\ nHooks' = 0
  /\ phase' = "register"
  /\ rootIdx' = 1
  /\ frames' = <<>>
  /\ tpc' = "none"
  /\ beforeEachHooks' = <<>>
  /\ afterEachHooks' = <<>>
  /\ hidx' = 1
  /\ trace' = <<>>
  /\ throws' = 0
  /\ matcherCalls' = <<>>
  /\ mockFn' = NewMock(NoImpl)
  /\ lastOutcome' = [type |-> "none", value |-> Undefined]
  /\ invoked' = <<>>
  /\ cleared' = NotCleared
  /\ lastCall' = NoCall
  /\ mockRegistry' = NoRegistry
  /\ late' = {}
  /\ UNCHANGED <<object, lastMatch, spied>>

RerunBounds == [suites |-> 1, tests |-> 1, hooks |-> 0, calls |-> 2]

NextRerun ==
  \/ RunCode
  \/ Test(RerunBounds)
  \/ Run
  \/ RunLoop
  \/ RunSuiteStage
  \/ RunTest
  \/ RunTestBody
  \/ BodyReturn
  \/ \E e \in Thrown : BodyThrow("throw", e)
  \/ RunTestCheck
  \/ MockCall(<<"x">>)
  \/ UseFakeTimers
  \/ SetTimeout([kind |-> "return", e |-> NewError("boom"), delay |-> 0], 1)
  \/ AdvanceTimersByTime(1)

SpecRerun == Init /\ [][NextRerun]_vars

\* ---------------------------------------------------------------- Spec
Next ==
  \/ Describe(SpecBounds)
  \/ DescribeReturn
  \/ Test(SpecBounds)
  \/ BeforeEach(SpecBounds)
  \/ AfterEach(SpecBounds)
  \/ BeforeAll(SpecBounds)
  \/ AfterAll(SpecBounds)
  \/ Run
  \/ RunLoop
  \/ RunSuiteStage
  \/ RunSuiteChild
  \/ RunTest
  \/ ExecuteHookReturn
  \/ \E e \in Thrown : ExecuteHookThrow(e)
  \/ RunTestBody
  \/ BodyReturn
  \/ \E mode \in {"throw", "reject"}, e \in Thrown : BodyThrow(mode, e)
  \/ RunTestCheck

Spec == Init /\ [][Next]_vars

\* Runs of snippets with one suite, one test and at most one hook, whose hook
\* and body use expect.
AssertBounds == [suites |-> 1, tests |-> 1, hooks |-> 1, calls |-> 3]

NextAssert ==
  \/ Describe(AssertBounds)
  \/ DescribeReturn
  \/ Test(AssertBounds)
  \/ BeforeEach(AssertBounds)
  \/ AfterEach(AssertBounds)
  \/ BeforeAll(AssertBounds)
  \/ AfterAll(AssertBounds)
  \/ Run
  \/ RunLoop
  \/ RunSuiteStage
  \/ RunTest
  \/ ExecuteHookReturn
  \/ \E e \in Thrown : ExecuteHookThrow(e)
  \/ RunTestBody
  \/ BodyReturn
  \/ \E mode \in {"throw", "reject"}, e \in Thrown : BodyThrow(mode, e)
  \/ RunTestCheck
  \/ \E n \in 0..MaxDeclared : ExpectAssertions(n)
  \/ \E isNot \in BOOLEAN, condition \in BOOLEAN : ExpectMatcher(isNot, condition)
  \/ \E type \in {"resolves", "rejects"}, settle \in {"resolve", "reject"},
        e \in Thrown, matcher \in {"toBe", "toThrow", "unknown"},
        condition \in BOOLEAN :
        ExpectAsync(type, settle, e, matcher, condition)

SpecAssert == Init /\ [][NextAssert]_vars

\* Runs of snippets that register before-each and after-each hooks only, in
\* up to three suites with one test and up to four hooks.
EachBounds == [suites |-> 3, tests |-> 1, hooks |-> 4, calls |-> 7]

NextEach ==
  \/ Describe(EachBounds)
  \/ DescribeReturn
  \/ Test(EachBounds)
  \/ BeforeEach(EachBounds)
  \/ AfterEach(EachBounds)
  \/ Run
  \/ RunLoop
  \/ RunSuiteStage
  \/ RunSuiteChild
  \/ RunTest
  \/ ExecuteHookReturn
  \/ \E e \in Thrown : ExecuteHookThrow(e)
  \/ RunTestBody
  \/ BodyReturn
  \/ \E mode \in {"throw", "reject"}, e \in Thrown : BodyThrow(mode, e)
  \/ RunTestCheck

SpecEach == Init /\ [][NextEach]_vars

\* ---------------------------------------------------------------- helpers
IsPrefix(a, b) == Len(a) <= Len(b) /\ SubSeq(b, 1, Len(a)) = a

RECURSIVE Flatten(_)
Flatten(ss) == IF ss = <<>> THEN <<>> ELSE Head(ss) \o Flatten(Tail(ss))

Range(s) == {s[i] : i \in 1..Len(s)}
SuiteIds == 1..Len(suites)
TestIds == 1..Len(tests)

\* The suite whose test list holds test t.
OwnerOf(t) == CHOOSE s \in SuiteIds : t \in Range(suites[s].tests)

\* The suites from the root down to s.
RECURSIVE RootPath(_)
RootPath(s) == IF s = None THEN <<>> ELSE Append(RootPath(suites[s].parent), s)

Reverse(s) == [i \in 1..Len(s) |-> s[Len(s) + 1 - i]]

\* The ids of the trace entries of the kinds ks, in order; for test t only
\* when t is not None.
RECURSIVE Ran(_, _, _)
Ran(tr, ks, t) ==
  IF tr = <<>> THEN <<>>
  ELSE IF Head(tr).k \in ks /\ (t = None \/ Head(tr).t = t)
       THEN <<Head(tr).id>> \o Ran(Tail(tr), ks, t)
       ELSE Ran(Tail(tr), ks, t)

\* The kinds of the trace entries of test t, in order.
RECURSIVE Window(_, _)
Window(tr, t) ==
  IF tr = <<>> THEN <<>>
  ELSE IF Head(tr).t = t THEN <<Head(tr).k>> \o Window(Tail(tr), t)
       ELSE Window(Tail(tr), t)

Closed(t) == tests[t].status \in {"pass", "fail"} /\ currentTest # t
RunOver == phase \in {"done", "aborted"}
BodyEvents(t) == {i \in 1..Len(trace) : trace[i].k = "body" /\ trace[i].id = t}

\* ---------------------------------------------------------------- C1
\* C1: for every test, the before-each hooks that have run for it are an
\* initial part of the hooks of its suites taken from the root suite down to
\* the owning suite, each suite's hooks in registration order, and all of them
\* once the body has been called; the after-each hooks that have run are an
\* initial part of the hooks taken from the owning suite up to the root, and
\* all of them once runTest has returned with status pass; within the test's
\* window the before-each hooks come first, then the body, then the
\* after-each hooks.
RootToLeaf(t) ==
  Flatten([i \in 1..Len(RootPath(OwnerOf(t))) |->
             suites[RootPath(OwnerOf(t))[i]]._beforeEach])
LeafToRoot(t) ==
  Flatten([i \in 1..Len(RootPath(OwnerOf(t))) |->
             suites[Reverse(RootPath(OwnerOf(t)))[i]]._afterEach])
Rank(k) ==
  CASE k = "test" -> 0 [] k = "beforeEach" -> 1 [] k = "body" -> 2
    [] k = "afterEach" -> 3 [] OTHER -> 4

C1_HookOrder ==
  \A t \in TestIds :
    LET w == Window(trace, t)
    IN /\ IsPrefix(Ran(trace, {"beforeEach"}, t), RootToLeaf(t))
       /\ IsPrefix(Ran(trace, {"afterEach"}, t), LeafToRoot(t))
       /\ BodyEvents(t) # {} => Ran(trace, {"beforeEach"}, t) = RootToLeaf(t)
       /\ Closed(t) /\ tests[t].status = "pass"
            => Ran(trace, {"afterEach"}, t) = LeafToRoot(t)
       /\ \A i, j \in 1..Len(w) : i < j => Rank(w[i]) <= Rank(w[j])

\* A test of a nested suite has passed after the before-each hooks of its
\* parent suite and of its own suite, and the after-each hooks of both, ran.
C1_Witness ==
  \E t \in TestIds :
    /\ Closed(t) /\ tests[t].status = "pass"
    /\ suites[OwnerOf(t)].parent # None
    /\ suites[OwnerOf(t)]._beforeEach # <<>>
    /\ suites[suites[OwnerOf(t)].parent]._beforeEach # <<>>
    /\ suites[OwnerOf(t)]._afterEach # <<>>
    /\ suites[suites[OwnerOf(t)].parent]._afterEach # <<>>
    /\ Len(Ran(trace, {"beforeEach"}, t)) = 2
    /\ Len(Ran(trace, {"afterEach"}, t)) = 2

\* ---------------------------------------------------------------- C2
\* C2: once a run is over, every before-all hook and every after-all hook of
\* every suite has run exactly once.
TimesRun(h) ==
  Cardinality({i \in 1..Len(trace) :
                 trace[i].k \in {"beforeAll", "afterAll"} /\ trace[i].id = h})

C2_ExactlyOnce ==
  RunOver =>
    \A s \in SuiteIds :
      \A h \in Range(suites[s]._beforeAll) \cup Range(suites[s]._afterAll) :
        TimesRun(h) = 1

\* ---------------------------------------------------------------- C3
\* C3: the before-all hooks, test starts and after-all hooks that have
\* happened are an initial part of the order that visits the root suites in
\* registration order and, for each suite, lists its before-all hooks, its
\* own tests in registration order, its child suites in registration order
\* (recursively) and its after-all hooks; they are the whole of it when the
\* run is done.
Tag(k, ids) == [i \in 1..Len(ids) |-> <<k, ids[i]>>]

RECURSIVE SuiteOrder(_), SuitesOrder(_)
SuiteOrder(s) ==
  Tag("beforeAll", suites[s]._beforeAll) \o Tag("test", suites[s].tests)
    \o SuitesOrder(suites[s].suites) \o Tag("afterAll", suites[s]._afterAll)
SuitesOrder(ss) ==
  IF ss = <<>> THEN <<>> ELSE SuiteOrder(Head(ss)) \o SuitesOrder(Tail(ss))

RECURSIVE RanTagged(_, _)
RanTagged(tr, ks) ==
  IF tr = <<>> THEN <<>>
  ELSE IF Head(tr).k \in ks
       THEN <<<<Head(tr).k, Head(tr).id>>>> \o RanTagged(Tail(tr), ks)
       ELSE RanTagged(Tail(tr), ks)

\* Ids are given in creation order, so an ascending list is in registration
\* order.
Ascending(s) == \A i, j \in 1..Len(s) : i < j => s[i] < s[j]

C3_RunOrder ==
  /\ Ascending(rootSuites)
  /\ \A s \in SuiteIds : Ascending(suites[s].tests) /\ Ascending(suites[s].suites)
  /\ IsPrefix(RanTagged(trace, {"beforeAll", "test", "afterAll"}),
              SuitesOrder(rootSuites))
  /\ phase = "done" => RanTagged(trace, {"beforeAll", "test", "afterAll"})
                         = SuitesOrder(rootSuites)

\* A run is done in which a suite with an after-all hook has a test that was
\* registered after a test of one of its child suites, and both tests ran.
C3_Witness ==
  /\ phase = "done"
  /\ \E s \in SuiteIds :
       /\ suites[s]._beforeAll \o suites[s]._afterAll # <<>>
       /\ \E c \in Range(suites[s].suites), tp \in Range(suites[s].tests) :
            \E tc \in Range(suites[c].tests) :
              tc < tp /\ Closed(tp) /\ Closed(tc)

\* ---------------------------------------------------------------- C4
\* C4: when only test bodies throw or reject, with whatever value, the run
\* is not abandoned and once it is done every registered test is pass or
\* fail.
NoHookThrew ==
  \A i \in 1..Len(trace) :
    trace[i].k \in {"beforeAll", "afterAll", "beforeEach", "afterEach"}
      => trace[i].mode = "return"

C4_BrokenTestIsolated ==
  NoHookThrew =>
    /\ phase # "aborted"
    /\ phase = "done" => \A t \in TestIds : tests[t].status \in {"pass", "fail"}

\* ---------------------------------------------------------------- C5
\* C5: when only hooks throw, with whatever value, no test fails (no
\* assertion count is declared in these runs) and the run is not abandoned.
NoBodyThrew ==
  \A i \in 1..Len(trace) : trace[i].k = "body" => trace[i].mode = "return"

C5_HookErrorOnlyLogged ==
  NoBodyThrew =>
    /\ phase # "aborted"
    /\ \A t \in TestIds : tests[t].status # "fail"

\* ---------------------------------------------------------------- C6
\* C6: a test whose body threw, or whose awaited value rejected, has status
\* fail from then on, and when the value was an Error its error field is
\* that Error's message.
C6_BodyErrorRecorded ==
  \A t \in TestIds :
    \A i \in BodyEvents(t) :
      trace[i].mode \in {"throw", "reject"} =>
        /\ tests[t].status = "fail"
        /\ trace[i].value.type = "Error"
             => tests[t].error = trace[i].value.message

\* A test whose awaited value rejected with an Error has failed with that
\* Error's message, and runTest has returned.
C6_Witness ==
  \E t \in TestIds :
    \E i \in BodyEvents(t) :
      /\ trace[i].mode = "reject"
      /\ trace[i].value = NewError("boom")
      /\ Closed(t)
      /\ tests[t].error = "boom"

\* ---------------------------------------------------------------- C7
\* C7: a test that declared an expected assertion count n, whose body
\* returned and none of whose hooks threw, has passed when exactly n matcher
\* calls were issued during the test, and has failed otherwise.
HookThrewFor(t) ==
  \E i \in 1..Len(trace) :
    trace[i].t = t /\ trace[i].k # "body" /\ trace[i].mode \in {"throw", "reject"}
BodyReturned(t) == \E i \in BodyEvents(t) : trace[i].mode = "return"

C7_DeclaredCount ==
  \A t \in TestIds :
    (/\ Closed(t) /\ BodyReturned(t) /\ ~HookThrewFor(t)
     /\ tests[t].assertionsExpected # <<>>)
      => (tests[t].status = "pass"
            <=> matcherCalls[t] = tests[t].assertionsExpected[1])

\* ---------------------------------------------------------------- C8
\* C8: every step in which a matcher call is issued for a test adds exactly
\* one to that test's assertion counter.
C8_OnePerMatcherCall ==
  [][\A t \in TestIds :
       (t <= Len(matcherCalls') /\ matcherCalls'[t] = matcherCalls[t] + 1)
         => tests'[t].assertionsCount = tests[t].assertionsCount + 1]_vars

\* ---------------------------------------------------------------- C9
\* C9: with no clear or reset since the listed invocations, the call log is
\* the sequence of their argument tuples and the result log is as long as
\* the call log.
C9_CallAndResultLogged ==
  /\ mockFn.calls = invoked
  /\ Len(mockFn.results) = Len(mockFn.calls)

\* ---------------------------------------------------------------- C10
\* C10: an invocation uses the oldest queued one-shot implementation and
\* removes it from the queue when the queue is not empty; else the
\* persistent implementation when one is set; else the constructor-supplied
\* default; else it returns undefined.
C10_ImplementationPriority ==
  [][Len(invoked') = Len(invoked) + 1 =>
       LET args == invoked'[Len(invoked')]
           queue == mockFn._onceImplementations
       IN IF queue # <<>>
          THEN /\ lastOutcome' = Apply(Head(queue), args)
               /\ mockFn'._onceImplementations = Tail(queue)
          ELSE /\ mockFn'._onceImplementations = <<>>
               /\ lastOutcome' =
                    IF mockFn._impl # NoImpl THEN Apply(mockFn._impl, args)
                    ELSE IF mockFn.impl # NoImpl THEN Apply(mockFn.impl, args)
                    ELSE [type |-> "return", value |-> Undefined]]_vars

\* The mock has a default, a different persistent implementation and a
\* queued one-shot implementation left, and its latest invocation gave what
\* neither the default nor the persistent implementation gives.
C10_Witness ==
  /\ invoked # <<>>
  /\ mockFn.impl # NoImpl /\ mockFn._impl # NoImpl /\ mockFn.impl # mockFn._impl
  /\ mockFn._onceImplementations # <<>>
  /\ lastOutcome # Apply(mockFn.impl, <<>>)
  /\ lastOutcome # Apply(mockFn._impl, <<>>)

\* ---------------------------------------------------------------- C11
\* The outcome of an invocation that uses implementation f (undefined: none).
Uses(f) ==
  IF f # NoImpl THEN Apply(f, <<>>)
  ELSE [type |-> "return", value |-> Undefined]

\* C11: right after mockClear or mockReset, mock.calls.length is 0; mockClear
\* keeps the persistent implementation and the next invocation uses it;
\* mockReset clears it and the next invocation uses the constructor-supplied
\* default, or returns undefined when there is none.
C11_ClearAndReset ==
  /\ (cleared.op # "none" /\ cleared.age = 0) => Len(mockFn.calls) = 0
  /\ (cleared.op = "clear" /\ cleared.age = 0) => mockFn._impl = cleared._impl
  /\ (cleared.op = "reset" /\ cleared.age = 0) => mockFn._impl = NoImpl
  /\ (cleared.op = "clear" /\ cleared.age = 1 /\ cleared._impl # NoImpl)
       => lastOutcome = Uses(cleared._impl)
  /\ (cleared.op = "reset" /\ cleared.age = 1)
       => lastOutcome = Uses(mockFn.impl)

\* A mock with logged calls, a default and another persistent implementation
\* was cleared and then invoked; another one was reset and then invoked.
C11_Witness ==
  /\ cleared.age = 1 /\ cleared.calls > 0
  /\ cleared._impl # NoImpl /\ mockFn.impl # NoImpl
  /\ Uses(mockFn.impl) # Uses(cleared._impl)

\* ---------------------------------------------------------------- C12
\* C12: mockClear empties the call log and the result log and leaves the
\* queue of one-shot implementations and the persistent implementation as
\* they were; the next invocation uses the one-shot implementation that was
\* at the head of the queue.
C12_ClearKeepsQueue ==
  /\ (cleared.op = "clear" /\ cleared.age = 0)
       => /\ mockFn.calls = <<>> /\ mockFn.results = <<>>
          /\ mockFn._onceImplementations = cleared.queue
          /\ mockFn._impl = cleared._impl
  /\ (cleared.op = "clear" /\ cleared.age = 1 /\ cleared.queue # <<>>)
       => lastOutcome = Uses(Head(cleared.queue))

\* ---------------------------------------------------------------- C13
\* The latest clock control was op, called while fake timers were active.
Did(op) == lastCall.op = op /\ lastCall.active
TargetTime == lastCall.start + lastCall.ms
CountOf(id) == Cardinality({k \in 1..Len(lastCall.fired) : lastCall.fired[k].id = id})

\* C13: after advanceTimersByTime(T) with fake timers active, the current
\* virtual time is T more than it was when the call started.
C13_AdvancesByExactlyT ==
  Did("advanceTimersByTime") => currentTime = lastCall.start + lastCall.ms

\* ---------------------------------------------------------------- C14
\* C14: an interval of period P > 0 registered at virtual time 0 fires
\* T div P times during advanceTimersByTime(T) called at time 0, and is still
\* pending afterwards.
C14_IntervalFiresTOverP ==
  (Did("advanceTimersByTime") /\ lastCall.start = 0) =>
    \A i \in 1..Len(lastCall.before) :
       LET t == lastCall.before[i]
       IN (t.isInterval /\ t.interval > 0 /\ t.dueTime = t.interval) =>
            /\ CountOf(t.id) = lastCall.ms \div t.interval
            /\ \E j \in 1..Len(timers) : timers[j].id = t.id

\* ---------------------------------------------------------------- C15
\* C15: every timer fired by advanceTimersByTime(ms) was, when it fired, a
\* pending timer due at or before target = start + ms, with no pending timer
\* due earlier and no pending timer due at the same time before it in
\* insertion order; the due times of the fired timers never decrease; and
\* after the call no pending timer is due at or before target.
C15_FiresDueTimersInOrder ==
  Did("advanceTimersByTime") =>
    LET f == lastCall.fired
    IN /\ \A k \in 1..Len(f) :
            \E i \in 1..Len(f[k].pending) :
               LET p == f[k].pending
               IN /\ p[i].id = f[k].id /\ p[i].dueTime = f[k].time
                  /\ f[k].time <= TargetTime
                  /\ \A j \in 1..Len(p) :
                        /\ p[j].dueTime >= p[i].dueTime
                        /\ (p[j].dueTime = p[i].dueTime => i <= j)
       /\ \A k \in 1..(Len(f) - 1) : f[k].time <= f[k + 1].time
       /\ \A i \in 1..Len(timers) : timers[i].dueTime > TargetTime

\* ---------------------------------------------------------------- C16
\* C16: runOnlyPendingTimers fires the timers that were pending when it was
\* called, each once and no other, ordered by due time; afterwards each of
\* them is re-armed one period later (interval) or removed (one-shot).
C16_RunsTheSnapshot ==
  Did("runOnlyPendingTimers") =>
    LET f == lastCall.fired
        b == lastCall.before
        At(id) == CHOOSE i \in 1..Len(b) : b[i].id = id
    IN /\ \A i \in 1..Len(b) : CountOf(b[i].id) = 1
       /\ \A k \in 1..Len(f) : \E i \in 1..Len(b) : b[i].id = f[k].id
       /\ \A k \in 1..Len(f), l \in 1..Len(f) :
            (k < l /\ (\E i \in 1..Len(b) : b[i].id = f[k].id)
                   /\ (\E i \in 1..Len(b) : b[i].id = f[l].id)) =>
               b[At(f[k].id)].dueTime <= b[At(f[l].id)].dueTime
       /\ \A i \in 1..Len(b) :
            IF b[i].isInterval /\ b[i].interval > 0
            THEN \E j \in 1..Len(timers) :
                    /\ timers[j].id = b[i].id
                    /\ timers[j].dueTime = b[i].dueTime + b[i].interval
            ELSE \A j \in 1..Len(timers) : timers[j].id # b[i].id

\* ---------------------------------------------------------------- C17
\* C17: advanceTimersByTime and runOnlyPendingTimers return to their caller
\* whatever the callbacks they fire throw: every timer they fired is then
\* re-armed to a later due time (interval) or removed (one-shot), and
\* advanceTimersByTime leaves the current time at the target.
C17_CallbackErrorsContained ==
  (Did("advanceTimersByTime") \/ Did("runOnlyPendingTimers")) =>
    /\ lastCall.outcome.type = "return"
    /\ \A k \in 1..Len(lastCall.fired) :
         \A j \in 1..Len(timers) :
            timers[j].id = lastCall.fired[k].id =>
               /\ timers[j].isInterval
               /\ timers[j].dueTime > lastCall.fired[k].time
    /\ Did("advanceTimersByTime") => currentTime = TargetTime

\* ---------------------------------------------------------------- C18
\* C18: after advanceTimersToNextTimer called with fake timers active and a
\* timer pending, the current time is the smallest due time that was pending
\* and every timer that was due at that time has fired.
C18_AdvancesToNextTimer ==
  (Did("advanceTimersToNextTimer") /\ lastCall.before # <<>>) =>
    LET b == lastCall.before
        soonest == CHOOSE d \in {b[i].dueTime : i \in 1..Len(b)} :
                     \A i \in 1..Len(b) : d <= b[i].dueTime
    IN /\ currentTime = soonest
       /\ \A i \in 1..Len(b) : b[i].dueTime = soonest => CountOf(b[i].id) >= 1

\* ---------------------------------------------------------------- C19
\* C19: right after useFakeTimers the current virtual time is 0 and no timer
\* is pending, whatever the clock held before; right after useRealTimers no
\* timer is pending; and while fake timers are off no timer is pending and
\* no clock control fires one.
C19_EnableResetsDisableDiscards ==
  /\ lastCall.op = "useFakeTimers" =>
       useFakeTimersFlag /\ currentTime = 0 /\ timers = <<>>
  /\ lastCall.op = "useRealTimers" => ~useFakeTimersFlag /\ timers = <<>>
  /\ ~useFakeTimersFlag => timers = <<>> /\ lastCall.fired = <<>>

\* Fake timers were enabled again while they were on, at a virtual time
\* after 0 and with a timer pending.
C19_Witness ==
  /\ Did("useFakeTimers")
  /\ lastCall.start > 0
  /\ lastCall.before # <<>>

\* ---------------------------------------------------------------- C20
\* C20: when the builder of a describe throws, whatever the value, the error
\* is logged, the container that was active before that describe is active
\* again, the suites and tests registered so far stay in the tree, and the
\* snippet goes on with its next registration call.
C20_DescribeRestores ==
  [][(Len(trace') = Len(trace) + 1 /\ trace'[Len(trace')].k = "builder") =>
       /\ currentSuite' = Last(describeStack)
       /\ describeStack' = Front(describeStack)
       /\ Len(logs') = Len(logs) + 1
       /\ suites' = suites /\ tests' = tests /\ rootSuites' = rootSuites
       /\ phase' = "register"]_vars

\* ---------------------------------------------------------------- C21
Occurs(seq, x) == Cardinality({i \in 1..Len(seq) : seq[i] = x})

\* C21: every suite is either in the root list once, with no parent and in
\* no children list, or it is once in the children list of its parent and in
\* no other list; a parent was created before its child, so parent references
\* lead to a root; the root list is in registration order.
C21_SuiteGraphIsTree ==
  /\ \A s \in SuiteIds :
       IF suites[s].parent = None
       THEN /\ Occurs(rootSuites, s) = 1
            /\ \A p \in SuiteIds : Occurs(suites[p].suites, s) = 0
       ELSE /\ Occurs(rootSuites, s) = 0
            /\ suites[s].parent \in SuiteIds /\ suites[s].parent < s
            /\ \A p \in SuiteIds :
                  Occurs(suites[p].suites, s)
                    = IF p = suites[s].parent THEN 1 ELSE 0
  /\ Len(rootSuites) = Cardinality({s \in SuiteIds : suites[s].parent = None})
  /\ Ascending(rootSuites)

\* Two root suites were registered, the first of them with a child suite,
\* and a builder has thrown.
C21_Witness ==
  /\ Len(rootSuites) = 2
  /\ \E s \in SuiteIds :
       /\ suites[s].parent # None
       /\ suites[s].parent = rootSuites[1]
  /\ throws > 0

\* ---------------------------------------------------------------- C22
\* C22: a call of test adds one Test with status pending and assertion count
\* 0.  With an active container it becomes the last entry of that container's
\* test list and no suite is made; with none, a new suite named Root with no
\* parent becomes the last root suite, the Test is its only test, and no
\* container is active after the call.
C22_TestAppended ==
  [][Len(tests') = Len(tests) + 1 =>
       LET tid == Len(tests')
       IN /\ tests'[tid].status = "pending" /\ tests'[tid].assertionsCount = 0
          /\ SubSeq(tests', 1, Len(tests)) = tests
          /\ IF currentSuite # None
             THEN /\ suites' = [suites EXCEPT ![currentSuite].tests =
                                                            Append(@, tid)]
                  /\ rootSuites' = rootSuites
             ELSE LET sid == Len(suites')
                  IN /\ sid = Len(suites) + 1
                     /\ SubSeq(suites', 1, Len(suites)) = suites
                     /\ suites'[sid].description = "Root"
                     /\ suites'[sid].parent = None
                     /\ suites'[sid].tests = <<tid>>
                     /\ rootSuites' = Append(rootSuites, sid)
          /\ currentSuite' = currentSuite]_vars

\* A test was registered in a describe block and, after it, a test at the
\* top level, which is in an implicit root suite.
C22_Witness ==
  /\ currentSuite = None
  /\ \E s \in SuiteIds, r \in SuiteIds :
       /\ suites[s].description = "suite" /\ suites[s].tests # <<>>
       /\ suites[r].description = "Root" /\ suites[r].parent = None
       /\ suites[r].tests = <<Len(tests)>>
       /\ s < r

\* ---------------------------------------------------------------- C23
\* C23: at most one test has status running and it is the current test; the
\* window of a test is started once; a before-each hook, body or after-each
\* hook runs for the current test, directly after the previous piece of the
\* same window; suite-level hooks run while no test is current; and when a
\* window or a suite-level hook follows a piece of test t, runTest has
\* returned for t.
C23_StrictlySequential ==
  /\ Cardinality({t \in TestIds : tests[t].status = "running"}) <= 1
  /\ \A t \in TestIds : tests[t].status = "running" => currentTest = t
  /\ \A j \in 1..Len(trace) :
       /\ trace[j].k = "test" =>
            \A i \in 1..(j - 1) : trace[i].t # trace[j].t
       /\ trace[j].k \in {"beforeAll", "afterAll"} => trace[j].t = None
       /\ trace[j].k \in {"beforeEach", "body", "afterEach"} =>
            /\ trace[j].t # None
            /\ j > 1 /\ trace[j - 1].t = trace[j].t
       /\ (trace[j].k \in {"test", "beforeAll", "afterAll"}
             /\ j > 1 /\ trace[j - 1].t # None) => Closed(trace[j - 1].t)

\* A run is done in which a test that failed was followed by another test,
\* and a test was followed by a suite-level hook.
C23_Witness ==
  /\ phase = "done"
  /\ \E j \in 2..Len(trace) :
       /\ trace[j].k = "test"
       /\ trace[j - 1].t # None /\ tests[trace[j - 1].t].status = "fail"
  /\ \E j \in 2..Len(trace) :
       trace[j].k = "afterAll" /\ trace[j - 1].t # None

\* ---------------------------------------------------------------- C24
\* The body of test t declares a parameter and that parameter has not been
\* invoked.
Waiting(t) == tests[t].fnLength > 0 /\ ~DoneCalled(t)

\* The body of test t threw.
Threw(t) == \E i \in BodyEvents(t) : trace[i].mode = "throw"

\* The runner has not gone past test t: t is not marked pass, none of its
\* after-each hooks has run and no test was started after it.
Held(t) ==
  /\ tests[t].status # "pass"
  /\ \A j \in 1..Len(trace) : trace[j].k = "afterEach" => trace[j].t # t
  /\ \A i, j \in 1..Len(trace) :
       (i < j /\ trace[i].k = "test" /\ trace[i].id = t) => trace[j].k # "test"

\* The tests no window was started for.
NotStarted ==
  {t \in TestIds : \A j \in 1..Len(trace) : trace[j].k = "test" => trace[j].id # t}

\* While a body is stalled the run is not over, its test is still the
\* current one and every test after it is pending.
StalledRun ==
  tpc = "stalled" =>
    /\ phase = "run"
    /\ currentTest # None /\ tests[currentTest].status = "running"
    /\ \A t \in NotStarted : tests[t].status = "pending"

Spied == object.method = TheMock

\* C25: spyOn puts a fresh mock in the place of the method; while the spy is
\* installed and the mock holds neither a queued nor a persistent
\* implementation (also after mockReset), a call of the method is recorded
\* and gives the caller what the original method gives when called on the
\* object; and when the spy is taken off, the method is the original again.
C25_SpyForwardsAndRestores ==
  [][/\ (~Spied /\ Spied') =>
          /\ mockFn'.impl = object.method
          /\ mockFn'.calls = <<>> /\ mockFn'._impl = NoImpl
     /\ (/\ Spied /\ Len(invoked') = Len(invoked) + 1
         /\ mockFn._onceImplementations = <<>> /\ mockFn._impl = NoImpl) =>
          /\ mockFn'.calls = Append(mockFn.calls, Last(invoked'))
          /\ lastOutcome' = Invoke(mockFn.impl, "object", Last(invoked'))
     /\ (Spied /\ ~Spied') => object'.method = mockFn.impl
    ]_vars

\* ---------------------------------------------------------------- C26
\* The matcher call of kind k has been made.
Made(k) == lastMatch.kind = k /\ lastMatch.outcome.type # "none"

\* C26: a matcher call under .not fails exactly when the same call without
\* .not passes, and passes exactly when that one fails, for every built-in
\* and custom matcher, received value and arguments.
C26_NotInverts ==
  Made("sync") =>
    LET other == Matchers(~lastMatch.isNot, lastMatch.m, lastMatch.received,
                          lastMatch.args)
    IN (lastMatch.outcome.type = "throw") <=> (other.type = "return")

\* ---------------------------------------------------------------- C27
\* C27: .resolves fails when the promise rejects, .rejects fails when it
\* resolves; otherwise, for every matcher name of the matcher set, the call
\* ends as the synchronous matcher ends on the settled value or the
\* rejection error.
C27_AsyncDelegates ==
  (Made("resolves") \/ Made("rejects")) =>
    IF lastMatch.kind = "resolves" /\ lastMatch.settle = "reject"
      THEN lastMatch.outcome.type = "throw"
    ELSE IF lastMatch.kind = "rejects" /\ lastMatch.settle = "resolve"
      THEN lastMatch.outcome.type = "throw"
    ELSE lastMatch.m \in MatcherNames =>
           lastMatch.outcome = Matchers(FALSE, lastMatch.m, lastMatch.received,
                                        lastMatch.args)

\* ---------------------------------------------------------------- C28
\* The values without asymmetric matchers.
IsPlain(a) == a \in Plain

\* C28: toEqual passes for a value and itself, and for plain data it passes
\* for (a, b) exactly when it passes for (b, a).
C28_EqualReflexiveSymmetric ==
  (Made("sync") /\ lastMatch.m = "toEqual" /\ ~lastMatch.isNot) =>
    LET a == lastMatch.received
        b == lastMatch.args[1]
    IN /\ (a = b /\ IsPlain(a)) => lastMatch.outcome = Passed
       /\ (IsPlain(a) /\ IsPlain(b)) =>
            (lastMatch.outcome = Passed
               <=> Matchers(FALSE, "toEqual", b, <<a>>) = Passed)

\* ---------------------------------------------------------------- C29
\* Structural equality as specified: primitives by value, arrays as ordered
\* sequences, objects equal iff they have the same keys with pairwise equal
\* values; functions by identity.
RECURSIVE StructurallyEqual(_, _)
StructurallyEqual(a, b) ==
  IF a.type \in {"array", "object"} /\ a.type = b.type
  THEN /\ Len(a.keys) = Len(b.keys)
       /\ \A i \in 1..Len(a.keys) :
            /\ Has(b.keys, a.keys[i])
            /\ StructurallyEqual(a.items[i], Get(b, a.keys[i]))
  ELSE [a EXCEPT !.ref = 0] = [b EXCEPT !.ref = 0] /\ a.ref = b.ref

\* A recorded call that has as many arguments as args, each equal to the
\* expected one or accepted by it.
Accepting(mock, args) ==
  \E c \in 1..Len(mock.items) :
    LET call == mock.items[c].items
    IN /\ Len(call) = Len(args)
       /\ \A i \in 1..Len(args) :
            \/ StructurallyEqual(call[i], args[i])
            \/ /\ IsAsymmetricMatcher(args[i])
               /\ AsymmetricMatch(args[i], call[i])

\* C29: toHaveBeenCalledWith passes on a mock that recorded a call with as
\* many arguments as expected, each structurally equal to the expected
\* argument or accepted by the asymmetric matcher in its place.
C29_CalledWithAccepts ==
  (/\ Made("sync") /\ lastMatch.m = "toHaveBeenCalledWith" /\ ~lastMatch.isNot
   /\ lastMatch.received.type = "mock"
   /\ Accepting(lastMatch.received, lastMatch.args))
    => lastMatch.outcome = Passed

\* ---------------------------------------------------------------- C30
\* The state of a newly constructed environment and of a snippet that has
\* not started: no suites, no logs, no mock calls, real timers, clock at 0,
\* no timers, nothing current.
Fresh ==
  /\ InitEnv
  /\ mockFn = NewMock(NoImpl) /\ invoked = <<>> /\ cleared = NotCleared
  /\ lastOutcome = [type |-> "none", value |-> Undefined]

C31_OneShotFiresOnce ==
  /\ (Did("setTimeout") /\ timers # <<>>) =>
       Last(timers).dueTime = lastCall.start + lastCall.ms
  /\ Did("advanceTimersByTime") =>
       /\ \A i \in 1..Len(lastCall.before) :
            LET t == lastCall.before[i]
            IN ~t.isInterval =>
                 IF t.dueTime <= TargetTime
                 THEN /\ CountOf(t.id) = 1
                      /\ ~Pending(timers, t.id)
                 ELSE CountOf(t.id) = 0 /\ Pending(timers, t.id)
       /\ \A j \in 1..Len(timers) :
            (~Pending(lastCall.before, timers[j].id) /\ ~timers[j].isInterval)
              => \E k \in 1..Len(lastCall.fired) :
                    LET by == lastCall.fired[k]
                        at == CHOOSE i \in 1..Len(by.pending) :
                                by.pending[i].id = by.id
                    IN /\ by.pending[at].callback.kind = "setTimeout"
                       /\ timers[j].dueTime
                            = by.time + by.pending[at].callback.delay

\* ---------------------------------------------------------------- C32
\* The ids of ts are pairwise distinct and were allocated before counter.
DistinctBelow(ts, counter) ==
  \A i, j \in 1..Len(ts) :
     /\ ts[i].id < counter
     /\ i # j => ts[i].id # ts[j].id

\* C32: timer ids are unique and increasing for the run: the pending timers
\* always have pairwise distinct ids below the id counter, also at every
\* firing inside a clock control; the counter never goes down, also when
\* fake timers are deactivated and activated again; and every id that is
\* pending or fired after a step without having been pending before it is at
\* least the counter before the step, so greater than every earlier id.
C32_IdsIncreaseAndUnique ==
  /\ [](/\ DistinctBelow(timers, timerIdCounter)
        /\ \A k \in 1..Len(lastCall.fired) :
              /\ DistinctBelow(lastCall.fired[k].pending, timerIdCounter)
              /\ lastCall.fired[k].id < timerIdCounter)
  /\ [][/\ timerIdCounter' >= timerIdCounter
        /\ \A j \in 1..Len(timers') :
              ~Pending(timers, timers'[j].id)
                 => timers'[j].id >= timerIdCounter
        /\ \A k \in 1..Len(lastCall'.fired) :
              ~Pending(timers, lastCall'.fired[k].id)
                 => lastCall'.fired[k].id >= timerIdCounter]_vars

\* Fake timers are activated again, after ids were allocated and fake timers
\* were deactivated.
C32_Witness ==
  /\ lastCall.op = "useFakeTimers"
  /\ ~lastCall.active
  /\ timerIdCounter > 2

\* ---------------------------------------------------------------- C36
\* C36: a call of advanceTimersByTime, advanceTimersToNextTimer or
\* runOnlyPendingTimers made while fake timers are active never leaves the
\* current virtual time lower than it was before the call.
C36_TimeNeverDecreases ==
  [][(/\ useFakeTimersFlag
      /\ lastCall'.op \in {"advanceTimersByTime", "advanceTimersToNextTimer",
                           "runOnlyPendingTimers"})
       => currentTime' >= currentTime]_vars

\* ---------------------------------------------------------------- C38
\* The timer a firing was of, as it was pending when it fired.
TimerOf(firing) ==
  firing.pending[CHOOSE i \in 1..Len(firing.pending) :
                    firing.pending[i].id = firing.id]

\* The firing ran a callback that called clearTimeout(id) with an id that
\* had been allocated.
Cancels(firing, id) ==
  /\ id < firing.nextId
  /\ Pending(firing.pending, firing.id)
  /\ TimerOf(firing).callback.kind = "clearTimeout"
  /\ TimerOf(firing).callback.id = id

\* C38: a timer cancelled while fake timers are active never fires again.
\* clearTimeout/clearInterval(id) between clock controls leaves exactly the
\* other pending timers, so all of them when id is unknown; every timer
\* that fires is pending at that moment; after a callback has cancelled id,
\* its own id included, no later firing of the same clock control is of id
\* and id is not pending when the control returns; and no step makes an id
\* pending again that was allocated before the step and not pending then.
C38_ClearedNeverFires ==
  /\ [](/\ Did("clearTimer") =>
             /\ ~Pending(timers, lastCall.ms)
             /\ \A i \in 1..Len(lastCall.before) :
                   lastCall.before[i].id # lastCall.ms
                      => \E j \in 1..Len(timers) :
                            timers[j] = lastCall.before[i]
             /\ ~Pending(lastCall.before, lastCall.ms)
                   => timers = lastCall.before
        /\ \A k \in 1..Len(lastCall.fired) :
              /\ Pending(lastCall.fired[k].pending, lastCall.fired[k].id)
              /\ \A id \in 1..timerIdCounter :
                    Cancels(lastCall.fired[k], id) =>
                       /\ ~Pending(timers, id)
                       /\ \A j \in (k + 1)..Len(lastCall.fired) :
                             lastCall.fired[j].id # id)
  /\ [][/\ \A j \in 1..Len(timers') :
              \/ Pending(timers, timers'[j].id)
              \/ timers'[j].id >= timerIdCounter
        /\ \A k \in 1..Len(lastCall'.fired) :
              \/ Pending(timers, lastCall'.fired[k].id)
              \/ lastCall'.fired[k].id >= timerIdCounter]_vars

\* runOnlyPendingTimers has fired an interval whose callback cancelled the
\* interval itself, and a timer whose callback cancelled a timer of the
\* snapshot that was due later.
C38_Witness ==
  /\ Did("runOnlyPendingTimers")
  /\ \E k \in 1..Len(lastCall.fired) :
        /\ Cancels(lastCall.fired[k], lastCall.fired[k].id)
        /\ TimerOf(lastCall.fired[k]).isInterval
        /\ TimerOf(lastCall.fired[k]).interval > 0
  /\ \E k \in 1..Len(lastCall.fired), i \in 1..Len(lastCall.before) :
        /\ lastCall.before[i].id # lastCall.fired[k].id
        /\ Cancels(lastCall.fired[k], lastCall.before[i].id)

\* ---------------------------------------------------------------- C33
\* The statuses a test may have after a step, given its status before it.
Forward(status) ==
  CASE status = "pending" -> {"pending", "running"}
    [] status = "running" -> {"running", "pass", "fail"}
    [] status = "pass" -> {"pass", "fail"}
    [] status = "fail" -> {"fail"}

\* C33: a test has an error message only while its status is fail, and its
\* status only moves forward: a new test is pending, pending becomes running,
\* running becomes pass or fail, pass may become fail, and fail stays fail.
C33_StatusForward ==
  /\ [](\A t \in TestIds :
          tests[t].error # Undefined => tests[t].status = "fail")
  /\ [][\A t \in 1..Len(tests') :
          IF t <= Len(tests)
          THEN tests'[t].status \in Forward(tests[t].status)
          ELSE tests'[t].status = "pending"]_vars

\* A test that passed its body has failed the assertion count check.
C33_Witness ==
  \E t \in TestIds :
     /\ tests[t].status = "fail"
     /\ tests[t].error # Undefined
     /\ BodyReturned(t)
     /\ ~HookThrewFor(t)

\* ---------------------------------------------------------------- C34
\* C34: of a module mocked without a factory, two reads of the same member
\* name return the same mock function, for every name, so that the calls
\* made through the function of one read are in the call log of the function
\* of every other read of that name.
C34_AutoMockSameMember ==
  mockRegistry.kind = "auto" =>
    \A i, j \in 1..Len(mockRegistry.reads) :
       mockRegistry.reads[i].prop = mockRegistry.reads[j].prop
         => mockRegistry.reads[i].f = mockRegistry.reads[j].f

\* ---------------------------------------------------------------- C35
\* The body of test t threw or its awaited value rejected.
BodyThrew(t) == \E i \in BodyEvents(t) : trace[i].mode \in {"throw", "reject"}

\* An after-each hook is running or has run for test t.
AfterEachRan(t) ==
  \/ currentTest = t /\ InTestHook /\ tpc = "afterEach"
  \/ \E i \in 1..Len(trace) : trace[i].k = "afterEach" /\ trace[i].t = t

\* C35: no after-each hook runs for a test whose body threw or rejected;
\* while the after-each hooks of a test run its status is pass, the
\* assertion count check not having been made; and a matcher call issued in
\* a before-each or after-each hook of a test raises that test's assertion
\* counter.
C35_AfterEachOnlyAfterSuccess ==
  /\ [](/\ \A t \in TestIds : BodyThrew(t) => ~AfterEachRan(t)
        /\ (InTestHook /\ tpc = "afterEach") =>
              /\ tests[currentTest].status = "pass"
              /\ tests[currentTest].error = Undefined)
  /\ [][(InTestHook /\ matcherCalls'[currentTest] > matcherCalls[currentTest])
          => tests'[currentTest].assertionsCount
               > tests[currentTest].assertionsCount]_vars

\* ---------------------------------------------------------------- C37
\* C37: every call of advanceTimersByTime(ms) made with fake timers active
\* returns or throws: its loop over the due timers comes to an end.
C37_AdvanceTerminates ==
  Did("advanceTimersByTime") => lastCall.outcome # Hangs

\* ---------------------------------------------------------------- C40
\* C40: once every spy installed on the method has been restored, in
\* whatever order, object[methodName] is the function the first spyOn found.
C40_AllRestoredIsOriginal ==
  (/\ Len(spied.originals) > 1
   /\ spied.restored = 1..Len(spied.originals))
    => spied.method = 0

\* ---------------------------------------------------------------- C39
\* C39: a callback that a test left behind, running after that test's
\* window, changes no other test: the assertion counter, the logs, the
\* status and the error of every other test stay as they were.
C39_LateWorkIsolated ==
  [][(/\ Len(trace') = Len(trace) + 1
      /\ trace'[Len(trace')].k = "late")
       => \A t \in TestIds :
             t # trace'[Len(trace')].id => tests'[t] = tests[t]]_vars

====
